---- MODULE Spec2Model ----
(***************************************************************************)
(* SoilGuard.  The farm detail page (frontend/src/app/dashboard/farms/     *)
(* [id]/page.tsx) with its analysis handlers and polling loops; the tables *)
(* of supabase/migrations with their constraints, cascades and row-level-  *)
(* security policies; the new-farm form and its location selector; the     *)
(* zone overlay with its bounding boxes; the health bands of the zone      *)
(* components; the list of zone alerts; the grid of ZoneMap; and the       *)
(* middleware with the redirects it answers.                               *)
(***************************************************************************)
EXTENDS Integers, Sequences, FiniteSets, TLC

VARIABLES
    farm,              \* page.tsx:21   useState<Farm | null>
    analyzing,         \* page.tsx:25
    analysisError,     \* page.tsx:26
    soilHealthReport,  \* page.tsx:27
    roiReport,         \* page.tsx:28
    showSoilHealth,    \* page.tsx:29
    showROI,           \* page.tsx:30
    pc,                \* position of each handler invocation
    attempts,          \* page.tsx:119 / 156, local of the invocation
    initialReport,     \* page.tsx:116 / 153
    finalReport,       \* page.tsx:120 / 157
    exit,              \* which exit of the try block the invocation took
    caught,            \* message of the error object caught at 138 / 175
    calls,             \* requests issued by the invocation, per endpoint
    polledId,          \* identifier passed to the last get call
    waited,            \* milliseconds the invocation spent in setTimeout
    priorStatuses,     \* statuses answered by the gets before the last one
    requests,          \* handler invocations started so far
    nextId,            \* identifier the backend gives to the next record
    rejected,          \* message of the get request that rejected, if one did
    timedOutId,        \* identifier polled by the last invocation, if it timed out
    soil_health_analyses,  \* 002_analysis_tables.sql:11, rows by id
    roi_analyses,          \* 002_analysis_tables.sql:65, rows by id
    uuids,                 \* ids handed out by gen_random_uuid() so far
    lastStatement,         \* the last SQL statement a session sent, and its fate
    farms,                 \* 001_initial_schema.sql:5, rows by id
    zone_analyses,         \* 002_analysis_tables.sql:113, rows by id
    overlayProps,          \* ZoneMapOverlay: the props of the last render
    isClient,              \* ZoneMapOverlay: useState(false)
    zoneBounds,            \* ZoneMapOverlay: the rectangles of the last render
    formOpen,              \* the new-farm page is on the screen
    formData,              \* farms/new/page.tsx:38
    errors,                \* farms/new/page.tsx:47, the fields that carry a message
    manualCoords,          \* FarmLocationSelector.tsx:11, the two text boxes
    created,               \* the farmData of the last createFarm call
    zonalAnalysis,         \* the grid that the analysis service chose for a farm
    healthShown,           \* a health score and what the components show for it
    alertList,             \* ZoneAlertList: the props and the output of the last render
    zoneMap,               \* ZoneMap: the analysis prop and the grid of the last render
    nav                    \* middleware: the request of a navigation and its response

pageVars == <<farm, analyzing, analysisError, soilHealthReport, roiReport,
              showSoilHealth, showROI>>
localVars == <<pc, attempts, initialReport, finalReport, exit, caught>>
ghostVars == <<calls, polledId, waited, priorStatuses, requests, nextId,
               rejected, timedOutId>>
dbVars == <<soil_health_analyses, roi_analyses, uuids, lastStatement, farms,
           zone_analyses>>
overlayVars == <<overlayProps, isClient, zoneBounds>>
formVars == <<formOpen, formData, errors, manualCoords, created>>
resultVars == <<zonalAnalysis, healthShown, alertList, zoneMap, nav>>
viewVars == <<overlayVars, formVars, resultVars>>
vars == <<pageVars, localVars, ghostVars, dbVars, viewVars>>

----------------------------------------------------------------------------
(* Bounds *)
MaxRuns == 2
MaxRows == 1
MaxRecords == 3

(* Program constants *)
MaxAttempts == 30
PollIntervalMs == 2000

Kinds == {"soil", "roi"}
Handlers == Kinds \cup {"complete"}
Status == {"pending", "processing", "completed", "failed"}

NoFarm == "null"
TheFarm == "farm-1"
NoId == 0

FailedMsg == "Analysis failed"
TimeoutMsg == "Analysis timeout - please try again"
CompleteFallbackMsg == "Analysis failed. Please try again."

WorkerErrors == {"Satellite data unavailable"}
Payloads == {"results"}
\* messages of the errors a request can reject with; "" is an Error without text
ThrownMessages == {"Analysis not found", "Not authorized", ""}

\* an area is counted in hundred-thousandths of a hectare; the farms table
\* keeps four decimal places
Hectare == 100000
AreaScale == 10
NullDate == 0

\* the new-farm form as it is mounted.  A number or a numeric text is <<n>>,
\* null and the empty text are <<>>; coordinates are in whole degrees, an
\* area text in units of 1 / Hectare, a date is a day number
EmptyForm == [name |-> "", location_lat |-> <<>>, location_lng |-> <<>>,
              area_hectares |-> <<>>, crop_type |-> "",
              planting_date |-> NullDate, harvest_date |-> NullDate]
NoCoords == [latitude |-> <<>>, longitude |-> <<>>]
NoFarmData == [user_id |-> "none"]

\* nothing analysed, nothing shown
NoZonal == [farm_id |-> NoFarm]
NoHealth == [score |-> -1]
NoAlerts == [maxAlerts |-> 0, zones |-> <<>>, problemZones |-> <<>>,
             output |-> "none"]

\* ZoneMapOverlay is not on the screen
NoProps == [latitude |-> <<0, 0>>, longitude |-> <<0, 0>>, area |-> <<0, 0>>,
            grid_size |-> [rows |-> 0, cols |-> 0], zones |-> <<>>]

\* no navigation has been made
NoNav == [session |-> FALSE, url |-> [path |-> <<>>, redirectTo |-> <<>>],
          response |-> "none", location |-> [path |-> <<>>, redirectTo |-> <<>>],
          visited |-> {}]

\* ZoneMap is not on the screen
NoZoneMap == [analysis |-> [grid_size |-> [rows |-> 0, cols |-> 0], zones |-> <<>>],
              grid |-> <<>>, error |-> "not rendered"]

NoStatement == [op |-> "none", uid |-> "none", id |-> 0, applied |-> FALSE]

NoReport == [id |-> NoId, status |-> "null", error_message |-> "null", payload |-> "null"]

\* the records the API can answer for analysis id
ApiRecords(id) ==
    {[id |-> id, status |-> s, error_message |-> "null", payload |-> "null"] :
        s \in {"pending", "processing"}}
    \cup {[id |-> id, status |-> "completed", error_message |-> "null", payload |-> p] :
        p \in Payloads}
    \cup {[id |-> id, status |-> "failed", error_message |-> e, payload |-> "null"] :
        e \in WorkerErrors}

\* runCompleteAnalysis is part of lib/api: it is taken to resolve once both
\* analyses are completed, and to reject otherwise
CompleteResults(id) == {r \in ApiRecords(id) : r.status = "completed"}

CreateEndpoint(k) == IF k = "soil" THEN "analyzeSoilHealth" ELSE "analyzeROI"
\* variant: the loop calls the create endpoint again
PollEndpointRecreates(k) == CreateEndpoint(k)

PollEndpoint(k) == IF k = "soil" THEN "getSoilHealthReport" ELSE "getROIReport"
Endpoints == {"analyzeSoilHealth", "analyzeROI", "getSoilHealthReport",
              "getROIReport", "runCompleteAnalysis"}
NoCalls == [e \in Endpoints |-> 0]

FallbackMsg(k) ==
    IF k = "soil" THEN "Soil health analysis failed. Please try again."
    ELSE IF k = "roi" THEN "ROI analysis failed. Please try again."
    ELSE CompleteFallbackMsg

\* err.message || '<fallback>'
SurfacedMessage(k, msg) == IF msg # "" THEN msg ELSE FallbackMsg(k)

\* variant: the thrown error carries the record's stored message
FailedErrorStored(rec) == rec.error_message

\* new Error('Analysis failed'), thrown inside the loop for a failed record
FailedError(rec) == FailedMsg

\* variant: the loop goes on after a completed record
LoopGuardIgnoresCompleted(att, rec) == att < MaxAttempts

\* variant: one attempt too many
LoopGuardOffByOne(att, rec) == att <= MaxAttempts /\ rec.status # "completed"

\* the while condition
LoopGuard(att, rec) == att < MaxAttempts /\ rec.status # "completed"

\* variant: the failed check inside the loop is missing
LoopOutcomeNoFailedCheck(att, rec) ==
    IF LoopGuard(att, rec)
    THEN "continue"
    ELSE IF rec.status # "completed" THEN "timeout" ELSE "success"

\* variant: the check after the loop is missing
LoopOutcomeNoFinalCheck(att, rec) ==
    IF LoopGuard(att, rec)
    THEN IF rec.status = "failed" THEN "failed" ELSE "continue"
    ELSE "success"

\* what the code between two awaits decides from (attempts, finalReport)
LoopOutcome(att, rec) ==
    IF LoopGuard(att, rec)
    THEN IF rec.status = "failed" THEN "failed" ELSE "continue"
    ELSE IF rec.status # "completed" THEN "timeout" ELSE "success"

----------------------------------------------------------------------------
\* the application before any farm has been registered
InitApp ==
    /\ farm = NoFarm
    /\ analyzing = FALSE
    /\ analysisError = ""
    /\ soilHealthReport = NoReport
    /\ roiReport = NoReport
    /\ showSoilHealth = FALSE
    /\ showROI = FALSE
    /\ pc = [h \in Handlers |-> "idle"]
    /\ attempts = [k \in Kinds |-> 0]
    /\ initialReport = [k \in Kinds |-> NoReport]
    /\ finalReport = [k \in Kinds |-> NoReport]
    /\ exit = [h \in Handlers |-> "none"]
    /\ caught = [h \in Handlers |-> "null"]
    /\ calls = [h \in Handlers |-> NoCalls]
    /\ polledId = [k \in Kinds |-> NoId]
    /\ waited = [k \in Kinds |-> 0]
    /\ priorStatuses = [k \in Kinds |-> {}]
    /\ requests = 0
    /\ nextId = 1
    /\ rejected = [k \in Kinds |-> "none"]
    /\ timedOutId = [k \in Kinds |-> NoId]
    /\ soil_health_analyses = <<>>
    /\ roi_analyses = <<>>
    /\ uuids = 0
    /\ lastStatement = NoStatement
    /\ zone_analyses = <<>>
    /\ overlayProps = NoProps
    /\ isClient = FALSE
    /\ zoneBounds = <<>>
    /\ formOpen = FALSE
    /\ formData = EmptyForm
    /\ errors = {}
    /\ manualCoords = NoCoords
    /\ created = NoFarmData
    /\ zonalAnalysis = NoZonal
    /\ healthShown = NoHealth
    /\ alertList = NoAlerts
    /\ zoneMap = NoZoneMap
    /\ nav = NoNav

Init ==
    /\ InitApp
    /\ farms = <<>>

\* loadFarmAndUser: the farm record arrives
LoadFarm ==
    /\ UNCHANGED <<dbVars, viewVars>>
    /\ farm = NoFarm
    /\ farm' = TheFarm
    /\ UNCHANGED <<analyzing, analysisError, soilHealthReport, roiReport,
                   showSoilHealth, showROI, localVars, ghostVars>>

\* variant: the three buttons stay enabled during an analysis
ButtonDisabledNever == FALSE

\* disabled={analyzing} of the three analysis buttons
ButtonDisabled == analyzing

\* variant: setAnalyzing(false) stands at the end of the try block
AnalyzingAfterSuccessOnly(how) == how # "success"

\* finally { setAnalyzing(false) }: the flag after the exit `how`
AnalyzingAfter(how) == FALSE

\* variant: one slot holds the report of both kinds
StoreReportShared(k, rec) ==
    /\ soilHealthReport' = rec
    /\ roiReport' = rec
    /\ showSoilHealth' = (k = "soil" \/ showSoilHealth)
    /\ showROI' = (k = "roi" \/ showROI)

\* setSoilHealthReport / setShowSoilHealth, setROIReport / setShowROI
StoreReport(k, rec) ==
    IF k = "soil"
    THEN /\ soilHealthReport' = rec
         /\ showSoilHealth' = TRUE
         /\ UNCHANGED <<roiReport, showROI>>
    ELSE /\ roiReport' = rec
         /\ showROI' = TRUE
         /\ UNCHANGED <<soilHealthReport, showSoilHealth>>

\* a click on the soil-only or ROI-only button, up to the first await
Start(k) ==
    /\ UNCHANGED <<dbVars, viewVars>>
    /\ ~ButtonDisabled
    /\ farm # NoFarm
    /\ pc[k] = "idle"
    /\ requests < MaxRuns
    /\ analyzing' = TRUE
    /\ analysisError' = ""
    /\ pc' = [pc EXCEPT ![k] = "creating"]
    /\ calls' = [calls EXCEPT ![k] = [NoCalls EXCEPT ![CreateEndpoint(k)] = 1]]
    /\ requests' = requests + 1
    /\ UNCHANGED <<farm, soilHealthReport, roiReport, showSoilHealth, showROI,
                   attempts, initialReport, finalReport, exit, caught,
                   polledId, waited, priorStatuses, nextId, rejected, timedOutId>>

\* variant: the catch block drops the reports of earlier runs
CatchClearsReports(k, how, msg) ==
    /\ analysisError' = SurfacedMessage(k, msg)
    /\ exit' = [exit EXCEPT ![k] = how]
    /\ caught' = [caught EXCEPT ![k] = msg]
    /\ pc' = [pc EXCEPT ![k] = "finally"]
    /\ soilHealthReport' = NoReport
    /\ roiReport' = NoReport
    /\ UNCHANGED <<farm, analyzing, showSoilHealth, showROI>>

\* the catch block
Catch(k, how, msg) ==
    /\ analysisError' = SurfacedMessage(k, msg)
    /\ exit' = [exit EXCEPT ![k] = how]
    /\ caught' = [caught EXCEPT ![k] = msg]
    /\ pc' = [pc EXCEPT ![k] = "finally"]
    /\ UNCHANGED <<farm, analyzing, soilHealthReport, roiReport, showSoilHealth, showROI>>

\* the code that runs once an awaited record has arrived, up to the next
\* await: the loop condition, the failed check and the check after the loop
Resume(k, att, rec) ==
    LET o == LoopOutcome(att, rec) IN
        \/ /\ o = "continue"
           /\ pc' = [pc EXCEPT ![k] = "sleeping"]
           /\ UNCHANGED <<pageVars, exit, caught>>
        \/ /\ o = "failed"
           /\ Catch(k, "failed", FailedError(rec))
        \/ /\ o = "timeout"
           /\ Catch(k, "timeout", TimeoutMsg)
        \/ /\ o = "success"
           /\ StoreReport(k, rec)
           /\ exit' = [exit EXCEPT ![k] = "success"]
           /\ pc' = [pc EXCEPT ![k] = "finally"]
           /\ UNCHANGED <<farm, analyzing, analysisError, caught>>

\* analyzeSoilHealth / analyzeROI resolves with the new record
CreateReturns(k, rec) ==
    /\ UNCHANGED <<dbVars, viewVars>>
    /\ pc[k] = "creating"
    /\ initialReport' = [initialReport EXCEPT ![k] = rec]
    /\ attempts' = [attempts EXCEPT ![k] = 0]
    /\ finalReport' = [finalReport EXCEPT ![k] = rec]
    /\ Resume(k, 0, rec)
    /\ nextId' = nextId + 1
    /\ UNCHANGED <<calls, polledId, waited, priorStatuses, requests, rejected,
                   timedOutId>>

\* analyzeSoilHealth / analyzeROI rejects
CreateThrows(k, msg) ==
    /\ UNCHANGED <<dbVars, viewVars>>
    /\ pc[k] = "creating"
    /\ Catch(k, "createError", msg)
    /\ UNCHANGED <<attempts, initialReport, finalReport, ghostVars>>

\* variant: a run after a timeout polls the timed-out identifier
PollTargetStale(k) ==
    IF timedOutId[k] # NoId THEN timedOutId[k] ELSE initialReport[k].id

\* the argument of getSoilHealthReport / getROIReport
PollTarget(k) == initialReport[k].id

\* the timer resolves and the get request is sent
TimerFires(k) ==
    /\ UNCHANGED <<dbVars, viewVars>>
    /\ pc[k] = "sleeping"
    /\ waited' = [waited EXCEPT ![k] = @ + PollIntervalMs]
    /\ calls' = [calls EXCEPT ![k][PollEndpoint(k)] = @ + 1]
    /\ polledId' = [polledId EXCEPT ![k] = PollTarget(k)]
    /\ priorStatuses' = [priorStatuses EXCEPT ![k] =
            IF calls[k][PollEndpoint(k)] = 0 THEN {} ELSE @ \cup {finalReport[k].status}]
    /\ pc' = [pc EXCEPT ![k] = "fetching"]
    /\ UNCHANGED <<pageVars, attempts, initialReport, finalReport, exit, caught,
                   requests, nextId, rejected, timedOutId>>

\* getSoilHealthReport / getROIReport resolves
GetReturns(k, rec) ==
    /\ UNCHANGED <<dbVars, viewVars>>
    /\ pc[k] = "fetching"
    /\ finalReport' = [finalReport EXCEPT ![k] = rec]
    /\ attempts' = [attempts EXCEPT ![k] = @ + 1]
    /\ Resume(k, attempts[k] + 1, rec)
    /\ UNCHANGED <<initialReport, ghostVars>>

\* variant: a rejected get is swallowed and the loop waits again
OnGetErrorRetry(k, msg) ==
    /\ pc' = [pc EXCEPT ![k] = "sleeping"]
    /\ UNCHANGED <<pageVars, exit, caught>>

\* the rejection of the awaited get lands in the catch block
OnGetError(k, msg) == Catch(k, "getError", msg)

\* getSoilHealthReport / getROIReport rejects
GetThrows(k, msg) ==
    /\ UNCHANGED <<dbVars, viewVars>>
    /\ pc[k] = "fetching"
    /\ rejected' = [rejected EXCEPT ![k] = msg]
    /\ OnGetError(k, msg)
    /\ UNCHANGED <<attempts, initialReport, finalReport, calls, polledId, waited,
                   priorStatuses, requests, nextId, timedOutId>>

\* the finally block; the invocation returns and its locals are gone
Finally(k) ==
    /\ UNCHANGED <<dbVars, viewVars>>
    /\ pc[k] = "finally"
    /\ analyzing' = AnalyzingAfter(exit[k])
    /\ pc' = [pc EXCEPT ![k] = "idle"]
    /\ attempts' = [attempts EXCEPT ![k] = 0]
    /\ initialReport' = [initialReport EXCEPT ![k] = NoReport]
    /\ finalReport' = [finalReport EXCEPT ![k] = NoReport]
    /\ exit' = [exit EXCEPT ![k] = "none"]
    /\ caught' = [caught EXCEPT ![k] = "null"]
    /\ calls' = [calls EXCEPT ![k] = NoCalls]
    /\ polledId' = [polledId EXCEPT ![k] = NoId]
    /\ waited' = [waited EXCEPT ![k] = 0]
    /\ priorStatuses' = [priorStatuses EXCEPT ![k] = {}]
    /\ rejected' = [rejected EXCEPT ![k] = "none"]
    /\ timedOutId' = [j \in Kinds |->
            IF j = k /\ exit[k] = "timeout" THEN initialReport[k].id ELSE NoId]
    /\ UNCHANGED <<farm, analysisError, soilHealthReport, roiReport,
                   showSoilHealth, showROI, requests, nextId>>

\* handleAnalysis: a click on the complete-analysis button, up to the await
StartComplete ==
    /\ UNCHANGED <<dbVars, viewVars>>
    /\ ~ButtonDisabled
    /\ farm # NoFarm
    /\ pc["complete"] = "idle"
    /\ requests < MaxRuns
    /\ analyzing' = TRUE
    /\ analysisError' = ""
    /\ pc' = [pc EXCEPT !["complete"] = "running"]
    /\ calls' = [calls EXCEPT !["complete"] = [NoCalls EXCEPT !["runCompleteAnalysis"] = 1]]
    /\ requests' = requests + 1
    /\ UNCHANGED <<farm, soilHealthReport, roiReport, showSoilHealth, showROI,
                   attempts, initialReport, finalReport, exit, caught,
                   polledId, waited, priorStatuses, nextId, rejected, timedOutId>>

\* runCompleteAnalysis resolves with both reports
CompleteReturns(soil, roi) ==
    /\ UNCHANGED <<dbVars, viewVars>>
    /\ pc["complete"] = "running"
    /\ soilHealthReport' = soil
    /\ roiReport' = roi
    /\ showSoilHealth' = TRUE
    /\ exit' = [exit EXCEPT !["complete"] = "success"]
    /\ pc' = [pc EXCEPT !["complete"] = "finally"]
    /\ nextId' = nextId + 1
    /\ UNCHANGED <<farm, analyzing, analysisError, showROI, attempts,
                   initialReport, finalReport, caught, calls, polledId, waited,
                   priorStatuses, requests, rejected, timedOutId>>

\* runCompleteAnalysis rejects
CompleteThrows(msg) ==
    /\ UNCHANGED <<dbVars, viewVars>>
    /\ pc["complete"] = "running"
    /\ Catch("complete", "error", msg)
    /\ UNCHANGED <<attempts, initialReport, finalReport, ghostVars>>

\* the finally block of handleAnalysis
FinallyComplete ==
    /\ UNCHANGED <<dbVars, viewVars>>
    /\ pc["complete"] = "finally"
    /\ analyzing' = AnalyzingAfter(exit["complete"])
    /\ pc' = [pc EXCEPT !["complete"] = "idle"]
    /\ exit' = [exit EXCEPT !["complete"] = "none"]
    /\ caught' = [caught EXCEPT !["complete"] = "null"]
    /\ calls' = [calls EXCEPT !["complete"] = NoCalls]
    /\ timedOutId' = [j \in Kinds |-> NoId]
    /\ UNCHANGED <<farm, analysisError, soilHealthReport, roiReport,
                   showSoilHealth, showROI, attempts, initialReport,
                   finalReport, polledId, waited, priorStatuses, requests, nextId,
                   rejected>>

\* onClose of the two result modals
CloseSoilHealth ==
    /\ UNCHANGED <<dbVars, viewVars>>
    /\ showSoilHealth /\ soilHealthReport # NoReport
    /\ showSoilHealth' = FALSE
    /\ UNCHANGED <<farm, analyzing, analysisError, soilHealthReport, roiReport,
                   showROI, localVars, ghostVars>>

CloseROI ==
    /\ UNCHANGED <<dbVars, viewVars>>
    /\ showROI /\ roiReport # NoReport
    /\ showROI' = FALSE
    /\ UNCHANGED <<farm, analyzing, analysisError, soilHealthReport, roiReport,
                   showSoilHealth, localVars, ghostVars>>

Next ==
    \/ LoadFarm
    \/ \E k \in Kinds : Start(k)
    \/ \E k \in Kinds : \E rec \in ApiRecords(nextId) : CreateReturns(k, rec)
    \/ \E k \in Kinds : \E msg \in ThrownMessages : CreateThrows(k, msg)
    \/ \E k \in Kinds : TimerFires(k)
    \/ \E k \in Kinds : \E rec \in ApiRecords(initialReport[k].id) : GetReturns(k, rec)
    \/ \E k \in Kinds : \E msg \in ThrownMessages : GetThrows(k, msg)
    \/ \E k \in Kinds : Finally(k)
    \/ StartComplete
    \/ \E soil \in CompleteResults(nextId) : \E roi \in CompleteResults(nextId) :
            CompleteReturns(soil, roi)
    \/ \E msg \in ThrownMessages : CompleteThrows(msg)
    \/ FinallyComplete
    \/ CloseSoilHealth
    \/ CloseROI

Spec == Init /\ [][Next]_vars

----------------------------------------------------------------------------
(* The tables of supabase/migrations and their row-level-security         *)
(* policies.  An analysis row is kept as its columns user_id, farm_id,     *)
(* status, error_message, updated_at and one result column (payload)       *)
(* standing for the nullable result columns of the table.                  *)

Tables == {"soil_health_analyses", "roi_analyses"}
Users == {"user-a", "user-b"}
FarmIds == {TheFarm, "farm-2"}
\* values a statement can try to write into the status column
AttemptedStatus == Status \cup {"cancelled"}
Messages == {"null"} \cup WorkerErrors
Results == {"null"} \cup Payloads

Table(t) == IF t = "soil_health_analyses" THEN soil_health_analyses ELSE roi_analyses

\* CHECK (status IN ('pending', 'processing', 'completed', 'failed'))
StatusCheck(row) == row.status \in Status

\* farm_id UUID NOT NULL REFERENCES farms(id)
FarmReference(row) == row.farm_id \in DOMAIN farms

\* FOR INSERT WITH CHECK (auth.uid() = user_id)
InsertPolicy(uid, row) == uid = row.user_id

\* variant: the update policy lets every session through
UpdatePolicyOpen(uid, row) == TRUE

\* FOR UPDATE USING (auth.uid() = user_id)
UpdatePolicy(uid, row) == uid = row.user_id

\* FOR DELETE USING (auth.uid() = user_id)
DeletePolicy(uid, row) == uid = row.user_id

\* handle_updated_at(): NEW.updated_at = NOW(); a row's updated_at is either
\* still its creation time or the time of a later update
handle_updated_at(row) == [row EXCEPT !.updated_at = "updated"]

SetTable(t, f) ==
    IF t = "soil_health_analyses"
    THEN soil_health_analyses' = f /\ UNCHANGED roi_analyses
    ELSE roi_analyses' = f /\ UNCHANGED soil_health_analyses

Terminal(row) == row.status \in {"completed", "failed"}

\* the rows of table f without those that satisfy Gone
Without(f, Gone(_)) == [i \in {j \in DOMAIN f : ~Gone(f[j])} |-> f[i]]

\* zone_analyses.soil_health_analysis_id ... ON DELETE CASCADE: the zone rows
\* left once the soil-health rows `gone` are deleted
ZonesWithoutAnalyses(gone) ==
    LET Gone(z) == z.soil_health_analysis_id \in gone IN Without(zone_analyses, Gone)

\* INSERT INTO <t> ... by a session whose auth.uid() is uid
InsertAnalysis(t, uid, owner, farmId, st, msg, pl) ==
    LET row == [user_id |-> owner, farm_id |-> farmId, status |-> st,
                error_message |-> msg, payload |-> pl, updated_at |-> "created"]
        ok == InsertPolicy(uid, row) /\ StatusCheck(row) /\ FarmReference(row)
    IN  /\ uuids' = uuids + 1
        /\ lastStatement' = [op |-> "insert", uid |-> uid,
                             id |-> uuids + 1, applied |-> ok]
        /\ IF ok
           THEN SetTable(t, [i \in DOMAIN Table(t) \cup {uuids + 1} |->
                                IF i = uuids + 1 THEN row ELSE Table(t)[i]])
           ELSE UNCHANGED <<soil_health_analyses, roi_analyses>>
        /\ UNCHANGED <<pageVars, localVars, ghostVars, viewVars, farms, zone_analyses>>

\* UPDATE <t> SET ... WHERE id = <id> by a session whose auth.uid() is uid
UpdateAnalysis(t, uid, id, owner, st, msg, pl) ==
    /\ id \in DOMAIN Table(t)
    /\ LET old == Table(t)[id]
           new == [old EXCEPT !.user_id = owner, !.status = st,
                              !.error_message = msg, !.payload = pl]
           ok == UpdatePolicy(uid, old) /\ UpdatePolicy(uid, new) /\ StatusCheck(new)
       IN  /\ lastStatement' = [op |-> "update", uid |-> uid,
                                id |-> id, applied |-> ok]
           /\ IF ok
              THEN SetTable(t, [Table(t) EXCEPT ![id] = handle_updated_at(new)])
              ELSE UNCHANGED <<soil_health_analyses, roi_analyses>>
    /\ UNCHANGED <<pageVars, localVars, ghostVars, viewVars, uuids, farms, zone_analyses>>

\* DELETE FROM <t> WHERE id = <id> by a session whose auth.uid() is uid; the
\* zone rows of a deleted soil-health analysis go with it
DeleteAnalysis(t, uid, id) ==
    /\ id \in DOMAIN Table(t)
    /\ LET ok == DeletePolicy(uid, Table(t)[id])
       IN  /\ lastStatement' = [op |-> "delete", uid |-> uid,
                                id |-> id, applied |-> ok]
           /\ IF ok
              THEN /\ SetTable(t, [i \in DOMAIN Table(t) \ {id} |-> Table(t)[i]])
                   /\ zone_analyses' =
                        IF t = "soil_health_analyses"
                        THEN ZonesWithoutAnalyses({id}) ELSE zone_analyses
              ELSE UNCHANGED <<soil_health_analyses, roi_analyses, zone_analyses>>
    /\ UNCHANGED <<pageVars, localVars, ghostVars, viewVars, uuids, farms>>

\* NUMERIC(10,4): the value as stored, in units of AreaUnit hectares, rounded
\* half away from zero to four decimal places
Decimal4(x) ==
    IF x >= 0 THEN ((x + AreaScale \div 2) \div AreaScale) * AreaScale
    ELSE -(((-x) + AreaScale \div 2) \div AreaScale) * AreaScale

\* variant: the check lets a zero area in
AreaCheckAllowsZero(row) == row.area_hectares >= 0

\* CHECK (area_hectares > 0)
AreaCheck(row) == row.area_hectares > 0

\* CONSTRAINT valid_coordinates
valid_coordinates(row) ==
    /\ row.location_lat >= -90 /\ row.location_lat <= 90
    /\ row.location_lng >= -180 /\ row.location_lng <= 180

\* CONSTRAINT valid_dates
valid_dates(row) ==
    row.planting_date = NullDate \/ row.harvest_date = NullDate
        \/ row.harvest_date > row.planting_date

\* the row as the column types store it
FarmRow(owner, lat, lng, area, planting, harvest) ==
    [user_id |-> owner, location_lat |-> lat, location_lng |-> lng,
     area_hectares |-> Decimal4(area), planting_date |-> planting,
     harvest_date |-> harvest]

\* the policy and the constraints of the farms table let the row in
FarmAccepted(uid, row) ==
    InsertPolicy(uid, row) /\ AreaCheck(row) /\ valid_coordinates(row)
        /\ valid_dates(row)

\* INSERT INTO farms ... by a session whose auth.uid() is uid: the store
FarmInserted(uid, id, row) ==
    /\ id \notin DOMAIN farms
    /\ lastStatement' = [op |-> "insert farm", uid |-> uid, id |-> 0,
                         applied |-> FarmAccepted(uid, row)]
    /\ farms' = IF FarmAccepted(uid, row)
                THEN [f \in DOMAIN farms \cup {id} |->
                        IF f = id THEN row ELSE farms[f]]
                ELSE farms
    /\ UNCHANGED <<uuids, soil_health_analyses, roi_analyses, zone_analyses>>

\* the statement sent by a client of the store
InsertFarm(uid, id, row) ==
    /\ FarmInserted(uid, id, row)
    /\ UNCHANGED <<pageVars, localVars, ghostVars, viewVars>>

\* variant: the zone rows of the deleted farm's analyses stay
CascadeZonesKept(id, goneAnalyses) == zone_analyses

\* zone_analyses: farm_id and soil_health_analysis_id, both ON DELETE CASCADE
CascadeZones(id, goneAnalyses) ==
    LET Gone(z) == z.farm_id = id \/ z.soil_health_analysis_id \in goneAnalyses
    IN  Without(zone_analyses, Gone)

\* variant: the analyses of the deleted farm stay
CascadeAnalysesKept(f, id) == f

\* soil_health_analyses / roi_analyses: farm_id ... ON DELETE CASCADE
CascadeAnalyses(f, id) == LET Gone(r) == r.farm_id = id IN Without(f, Gone)

\* DELETE FROM farms WHERE id = <id> by a session whose auth.uid() is uid
DeleteFarm(uid, id) ==
    /\ id \in DOMAIN farms
    /\ LET ok == DeletePolicy(uid, farms[id])
           goneAnalyses == {i \in DOMAIN soil_health_analyses :
                                soil_health_analyses[i].farm_id = id}
           Dropped(t, left) == Cardinality(DOMAIN t) - Cardinality(DOMAIN left)
       IN  /\ lastStatement' =
                [op |-> "delete farm", uid |-> uid, id |-> 0, applied |-> ok,
                 cascaded |->
                    IF ok
                    THEN Dropped(soil_health_analyses,
                                 CascadeAnalyses(soil_health_analyses, id))
                         + Dropped(roi_analyses, CascadeAnalyses(roi_analyses, id))
                         + Dropped(zone_analyses, CascadeZones(id, goneAnalyses))
                    ELSE 0]
           /\ IF ok
              THEN /\ farms' = [f \in DOMAIN farms \ {id} |-> farms[f]]
                   /\ soil_health_analyses' = CascadeAnalyses(soil_health_analyses, id)
                   /\ roi_analyses' = CascadeAnalyses(roi_analyses, id)
                   /\ zone_analyses' = CascadeZones(id, goneAnalyses)
              ELSE UNCHANGED <<farms, soil_health_analyses, roi_analyses,
                               zone_analyses>>
    /\ UNCHANGED <<pageVars, localVars, ghostVars, viewVars, uuids>>

\* WITH CHECK (EXISTS (SELECT 1 FROM soil_health_analyses sha WHERE sha.id =
\* zone_analyses.soil_health_analysis_id AND sha.user_id = auth.uid()))
ZoneInsertPolicy(uid, row) ==
    /\ row.soil_health_analysis_id \in DOMAIN soil_health_analyses
    /\ soil_health_analyses[row.soil_health_analysis_id].user_id = uid

\* INSERT INTO zone_analyses ... by a session whose auth.uid() is uid
InsertZone(uid, analysis, farmId, zrow, zcol) ==
    LET row == [soil_health_analysis_id |-> analysis, farm_id |-> farmId,
                zone_row |-> zrow, zone_col |-> zcol]
        ok == ZoneInsertPolicy(uid, row) /\ FarmReference(row)
    IN  /\ uuids' = uuids + 1
        /\ lastStatement' = [op |-> "insert zone", uid |-> uid,
                             id |-> uuids + 1, applied |-> ok]
        /\ zone_analyses' =
                IF ok
                THEN [i \in DOMAIN zone_analyses \cup {uuids + 1} |->
                        IF i = uuids + 1 THEN row ELSE zone_analyses[i]]
                ELSE zone_analyses
        /\ UNCHANGED <<pageVars, localVars, ghostVars, viewVars, farms,
                       soil_health_analyses, roi_analyses>>

\* a farm of the first user, as the new-farm form would register it
AFarm == FarmRow("user-a", 45, 10, 5 * Hectare, 1, 2)

\* a database in which one user has registered one farm
InitDB ==
    /\ InitApp
    /\ farms = [f \in {TheFarm} |-> AFarm]

NextDB ==
    \/ \E t \in Tables, uid \in Users, owner \in Users, st \in AttemptedStatus,
          msg \in Messages :
            /\ uuids < MaxRows
            /\ InsertAnalysis(t, uid, owner, TheFarm, st, msg, "null")
    \/ \E t \in Tables, uid \in Users, id \in 1..uuids, owner \in Users,
          st \in AttemptedStatus, msg \in Messages :
            UpdateAnalysis(t, uid, id, owner, st, msg, "null")
    \/ \E t \in Tables, uid \in Users, id \in 1..uuids : DeleteAnalysis(t, uid, id)

SpecDB == InitDB /\ [][NextDB]_vars

\* the statements of one user on the analyses of the farm, with every value
\* of the status, error and result columns
NextRows ==
    \/ \E t \in Tables, st \in AttemptedStatus, msg \in Messages, pl \in Results :
            /\ uuids < MaxRows
            /\ InsertAnalysis(t, "user-a", "user-a", TheFarm, st, msg, pl)
    \/ \E t \in Tables, id \in 1..uuids, st \in AttemptedStatus, msg \in Messages,
          pl \in Results :
            UpdateAnalysis(t, "user-a", id, "user-a", st, msg, pl)
    \/ \E t \in Tables, id \in 1..uuids : DeleteAnalysis(t, "user-a", id)

SpecRows == InitDB /\ [][NextRows]_vars

\* a store in which the first user has registered two farms
InitCascade ==
    /\ InitApp
    /\ farms = [f \in FarmIds |-> AFarm]

\* the statements of the two users on the farms and on what depends on them
NextCascade ==
    \/ \E t \in Tables, uid \in Users, farmId \in FarmIds :
            /\ uuids < MaxRecords
            /\ InsertAnalysis(t, uid, uid, farmId, "pending", "null", "null")
    \/ \E analysis \in 1..uuids, farmId \in FarmIds :
            /\ uuids < MaxRecords
            /\ InsertZone("user-a", analysis, farmId, 0, 0)
    \/ \E t \in Tables, id \in 1..uuids : DeleteAnalysis(t, "user-a", id)
    \/ \E uid \in Users, id \in FarmIds : DeleteFarm(uid, id)

SpecCascade == InitCascade /\ [][NextCascade]_vars

\* the statements of the owner that record a soil-health analysis of the farm
\* and its zones, row by row
NextZones ==
    \/ \E st \in {"processing", "completed"} :
            /\ uuids < MaxRecords
            /\ InsertAnalysis("soil_health_analyses", "user-a", "user-a", TheFarm,
                              st, "null", "null")
    \/ \E id \in 1..uuids :
            UpdateAnalysis("soil_health_analyses", "user-a", id, "user-a",
                           "completed", "null", "null")
    \/ \E analysis \in 1..uuids, zrow \in -1..1, zcol \in 0..1 :
            /\ uuids < MaxRecords
            /\ InsertZone("user-a", analysis, TheFarm, zrow, zcol)

SpecZones == InitDB /\ [][NextZones]_vars

----------------------------------------------------------------------------
(* Numbers.  A JavaScript number is a binary floating-point value; it is   *)
(* kept here as <<m, e>>, the value m * 2^e with a significand m of        *)
(* Precision bits (or <<0, 0>>), and every operation rounds its exact      *)
(* result to the nearest such value, ties to even, as IEEE 754 does.       *)

Precision == 12

Zero == <<0, 0>>
Abs(n) == IF n < 0 THEN -n ELSE n
Sign(n) == IF n < 0 THEN -1 ELSE IF n > 0 THEN 1 ELSE 0
Pow2(k) == 2^k
MinMant == Pow2(Precision - 1)
MaxMant == Pow2(Precision) - 1

RECURSIVE BitLength(_)
BitLength(a) == IF a = 0 THEN 0 ELSE 1 + BitLength(a \div 2)

\* the value n * 2^e rounded to the nearest number, ties to even
Round(n, e) ==
    IF n = 0 THEN Zero
    ELSE LET a == Abs(n)
             k == BitLength(a) - Precision
         IN  IF k <= 0
             THEN <<Sign(n) * a * Pow2(-k), e + k>>
             ELSE LET q == a \div Pow2(k)
                      r == a % Pow2(k)
                      half == Pow2(k - 1)
                      up == r > half \/ (r = half /\ q % 2 = 1)
                      q1 == IF up THEN q + 1 ELSE q
                  IN  IF q1 > MaxMant
                      THEN <<Sign(n) * MinMant, e + k + 1>>
                      ELSE <<Sign(n) * q1, e + k>>

\* x * y
Mul(x, y) == Round(x[1] * y[1], x[2] + y[2])

\* x / y, y # 0: the quotient with two guard bits and a sticky bit, rounded
Div(x, y) ==
    LET s == Sign(x[1]) * Sign(y[1])
        num == Abs(x[1]) * Pow2(Precision + 2)
        q == num \div Abs(y[1])
        sticky == IF num % Abs(y[1]) = 0 THEN 0 ELSE 1
    IN  Round(s * (2 * q + sticky), x[2] - y[2] - Precision - 3)

\* x + y for x[2] >= y[2]; a y far below the last place of x only breaks ties
AddOrdered(x, y) ==
    LET d == x[2] - y[2]
    IN  IF d <= Precision + 2
        THEN Round(x[1] * Pow2(d) + y[1], y[2])
        ELSE Round(x[1] * Pow2(Precision + 2) + Sign(y[1]), x[2] - Precision - 2)

\* x + y
Add(x, y) ==
    IF x[1] = 0 THEN y
    ELSE IF y[1] = 0 THEN x
    ELSE IF x[2] >= y[2] THEN AddOrdered(x, y) ELSE AddOrdered(y, x)

Neg(x) == <<-x[1], x[2]>>

\* x - y
Sub(x, y) == Add(x, Neg(y))

RECURSIVE ISqrt(_, _, _)
\* the largest s in lo..hi with s * s <= n
ISqrt(n, lo, hi) ==
    IF lo = hi THEN lo
    ELSE LET mid == (lo + hi + 1) \div 2
         IN  IF mid * mid <= n THEN ISqrt(n, mid, hi) ELSE ISqrt(n, lo, mid - 1)

\* Math.sqrt(x), correctly rounded
Sqrt(x) ==
    IF x[1] <= 0 THEN Zero
    ELSE LET odd == x[2] % 2
             sh == Precision + 4 - odd
             n == x[1] * Pow2(sh)
             s == ISqrt(n, 0, Pow2(Precision + 2))
             sticky == IF s * s = n THEN 0 ELSE 1
         IN  Round(2 * s + sticky, ((x[2] - sh) \div 2) - 1)

\* the number written as the integer literal n, and as the decimal n / d
FromInt(n) == Round(n, 0)
Ratio(n, d) == Div(FromInt(n), FromInt(d))

\* x < y, x <= y (a rounded difference keeps the sign of the exact one)
Less(x, y) == Sub(x, y)[1] < 0
LessEq(x, y) == Sub(x, y)[1] <= 0

\* the integer an integral number stands for
ToInt(x) == IF x[2] >= 0 THEN x[1] * Pow2(x[2]) ELSE x[1] \div Pow2(-x[2])

\* Math.cos(centerLat * Math.PI / 180), in millionths, at the latitudes
\* (whole degrees) that the model uses
CosMillionths ==
    [d \in {-2, -1, 0, 1, 2, 45} |->
        CASE d = 0 -> 1000000
          [] d \in {-1, 1} -> 999848
          [] d \in {-2, 2} -> 999391
          [] d = 45 -> 707107]
Cos(centerLat) == Ratio(CosMillionths[ToInt(centerLat)], 1000000)

----------------------------------------------------------------------------
(* ZoneMapOverlay: the zone rectangles drawn over the farm *)

\* lines 72-88: the farm square around the centre
FarmSquare(centerLat, centerLon, areaHectares) ==
    LET totalAreaM2 == Mul(areaHectares, FromInt(10000))
        sideLengthM == Sqrt(totalAreaM2)
        latDegPerMeter == Div(FromInt(1), FromInt(111320))
        lonDegPerMeter == Div(FromInt(1), Mul(FromInt(111320), Cos(centerLat)))
        halfSideLat == Mul(Div(sideLengthM, FromInt(2)), latDegPerMeter)
        halfSideLon == Mul(Div(sideLengthM, FromInt(2)), lonDegPerMeter)
    IN  [farmNorth |-> Add(centerLat, halfSideLat),
         farmSouth |-> Sub(centerLat, halfSideLat),
         farmWest |-> Sub(centerLon, halfSideLon),
         farmEast |-> Add(centerLon, halfSideLon)]

\* variant: the zone width is taken from the number of rows
ZoneSizeByRows(sq, gridRows, gridCols) ==
    [zoneHeight |-> Div(Sub(sq.farmNorth, sq.farmSouth), FromInt(gridRows)),
     zoneWidth |-> Div(Sub(sq.farmEast, sq.farmWest), FromInt(gridRows))]

\* lines 91-92
ZoneSize(sq, gridRows, gridCols) ==
    [zoneHeight |-> Div(Sub(sq.farmNorth, sq.farmSouth), FromInt(gridRows)),
     zoneWidth |-> Div(Sub(sq.farmEast, sq.farmWest), FromInt(gridCols))]

\* variant: rows are counted from the south edge
ZoneBoxFromSouth(sq, size, gridRows, row, col) ==
    LET south == Add(sq.farmSouth, Mul(FromInt(row), size.zoneHeight))
        north == Add(south, size.zoneHeight)
        west == Add(sq.farmWest, Mul(FromInt(col), size.zoneWidth))
        east == Add(west, size.zoneWidth)
    IN  <<<<south, west>>, <<north, east>>>>

\* lines 95-100: [[south, west], [north, east]]
ZoneBox(sq, size, gridRows, row, col) ==
    LET north == Sub(sq.farmNorth, Mul(FromInt(row), size.zoneHeight))
        south == Sub(north, size.zoneHeight)
        west == Add(sq.farmWest, Mul(FromInt(col), size.zoneWidth))
        east == Add(west, size.zoneWidth)
    IN  <<<<south, west>>, <<north, east>>>>

calculateZoneBounds(centerLat, centerLon, areaHectares, gridRows, gridCols, row, col) ==
    LET sq == FarmSquare(centerLat, centerLon, areaHectares)
    IN  ZoneBox(sq, ZoneSize(sq, gridRows, gridCols), gridRows, row, col)

\* lines 160-163: the rectangle of every zone of the analysis
ZoneBoundsOf(props) ==
    [i \in DOMAIN props.zones |->
        [zone |-> props.zones[i],
         bounds |-> calculateZoneBounds(props.latitude, props.longitude, props.area,
                        props.grid_size.rows, props.grid_size.cols,
                        props.zones[i].row, props.zones[i].col)]]

\* a render of ZoneMapOverlay with the given props: the placeholder until the
\* effect has run, the rectangles after it
RenderOverlay(props) ==
    /\ overlayProps' = props
    /\ zoneBounds' = IF isClient THEN ZoneBoundsOf(props) ELSE <<>>
    /\ UNCHANGED isClient

\* useEffect(() => setIsClient(true), []) and the render that follows
OverlayEffect ==
    /\ overlayProps # NoProps
    /\ ~isClient
    /\ isClient' = TRUE
    /\ zoneBounds' = ZoneBoundsOf(overlayProps)
    /\ UNCHANGED <<overlayProps, pageVars, localVars, ghostVars, dbVars, formVars, resultVars>>

\* the zones of an analysis of a rows x cols grid, one per cell, row by row
GridZones(rows, cols) ==
    [i \in 1..(rows * cols) |-> [row |-> (i - 1) \div cols, col |-> (i - 1) % cols]]

\* a zone record that names a cell outside the grid, if the analysis has one
StrayZones(rows, cols) ==
    {<<>>} \cup {<<[row |-> r, col |-> c]>> :
                    <<r, c>> \in {<<rows, 0>>, <<0, cols>>, <<-1, cols - 1>>}}

\* the parent puts the overlay on the screen for a farm and an analysis
ShowOverlay(lat, lon, area, rows, cols, stray) ==
    /\ overlayProps = NoProps
    /\ RenderOverlay([latitude |-> FromInt(lat), longitude |-> FromInt(lon),
                      area |-> FromInt(area),
                      grid_size |-> [rows |-> rows, cols |-> cols],
                      zones |-> GridZones(rows, cols) \o stray])
    /\ UNCHANGED <<pageVars, localVars, ghostVars, dbVars, formVars, resultVars>>

\* the parent takes the overlay off the screen; its state is gone
HideOverlay ==
    /\ overlayProps # NoProps
    /\ overlayProps' = NoProps
    /\ isClient' = FALSE
    /\ zoneBounds' = <<>>
    /\ UNCHANGED <<pageVars, localVars, ghostVars, dbVars, formVars, resultVars>>

\* farms with centres of whole degrees and areas of whole hectares, under
\* the grids of the analysis service (README: 2x2 up to 5x5)
NextOverlay ==
    \/ \E lat \in {1, -2}, lon \in {-1, 2}, area \in {50000, 100000},
          rows \in 2..5, cols \in 2..5 :
            \E stray \in StrayZones(rows, cols) :
                ShowOverlay(lat, lon, area, rows, cols, stray)
    \/ OverlayEffect
    \/ HideOverlay

SpecOverlay == Init /\ [][NextOverlay]_vars

----------------------------------------------------------------------------
(* The new-farm form: farms/new/page.tsx and FarmLocationSelector.tsx *)

\* new Date() at the time of the submit, and a year of days
Today == 400
OneYear == 365

TheUser == "user-a"

\* !x of a number | null
Falsy(x) == x = <<>> \/ x = <<0>>

\* parseFloat of the text of a number input: the number the text spells
\* (NaN, written <<>>, for the empty text)
parseFloat(text) == text

isNaN(x) == x = <<>>

\* FarmLocationSelector.tsx:89
isValidCoordinate(lat, lng) ==
    lat >= -90 /\ lat <= 90 /\ lng >= -180 /\ lng <= 180

\* area > 100000 hectares, without leaving 32 bits
TooLarge(area) ==
    \/ area \div Hectare > 100000
    \/ area \div Hectare = 100000 /\ area % Hectare > 0

\* page.tsx:124-139
HarvestError(fd) ==
    \/ fd.harvest_date = NullDate
    \/ fd.planting_date # NullDate /\ fd.harvest_date <= fd.planting_date
    \/ fd.harvest_date > Today + OneYear

\* page.tsx:88-98
AreaError(fd) ==
    \/ fd.area_hectares = <<>>
    \/ isNaN(parseFloat(fd.area_hectares))
    \/ parseFloat(fd.area_hectares)[1] <= 0
    \/ TooLarge(parseFloat(fd.area_hectares)[1])

\* page.tsx:71-142: the fields that get a message
validateForm(fd) ==
    (IF fd.name = "" \/ Len(fd.name) < 2 \/ Len(fd.name) > 100
     THEN {"name"} ELSE {})
    \cup (IF Falsy(fd.location_lat) \/ Falsy(fd.location_lng)
          THEN {"location"} ELSE {})
    \cup (IF AreaError(fd) THEN {"area_hectares"} ELSE {})
    \cup (IF fd.crop_type = "" \/ Len(fd.crop_type) < 2
          THEN {"crop_type"} ELSE {})
    \cup (IF \/ fd.planting_date = NullDate
             \/ fd.planting_date > Today
             \/ fd.planting_date < Today - OneYear
          THEN {"planting_date"} ELSE {})
    \cup (IF HarvestError(fd) THEN {"harvest_date"} ELSE {})

\* FarmLocationSelector.tsx:19-26 with page.tsx:276-280: every render of the
\* page hands the selector a new selectedLocation, and the effect copies it
\* into the text boxes
SyncCoords(fd, coords) ==
    IF Falsy(fd.location_lat) \/ Falsy(fd.location_lng)
    THEN coords
    ELSE [latitude |-> fd.location_lat, longitude |-> fd.location_lng]

\* the page is opened
OpenNewFarm ==
    /\ ~formOpen
    /\ formOpen' = TRUE
    /\ formData' = EmptyForm
    /\ errors' = {}
    /\ manualCoords' = NoCoords
    /\ UNCHANGED <<created, pageVars, localVars, ghostVars, dbVars, overlayVars,
                   resultVars>>

\* page.tsx:144-152
handleInputChange(name, value) ==
    /\ formOpen
    /\ formData' = [formData EXCEPT ![name] = value]
    /\ errors' = errors \ {name}
    /\ manualCoords' = SyncCoords(formData', manualCoords)
    /\ UNCHANGED <<formOpen, created, pageVars, localVars, ghostVars, dbVars,
                   overlayVars, resultVars>>

\* page.tsx:154-161, after the selector has set its text boxes to coords
handleLocationSelect(lat, lng, coords) ==
    /\ formData' = [formData EXCEPT !.location_lat = <<lat>>,
                                    !.location_lng = <<lng>>]
    /\ errors' = errors \ {"location"}
    /\ manualCoords' = SyncCoords(formData', coords)
    /\ UNCHANGED <<formOpen, created, pageVars, localVars, ghostVars, dbVars,
                   overlayVars, resultVars>>

\* FarmLocationSelector.tsx:294-301: a click on the map
MapClick(lat, lng) ==
    /\ formOpen
    /\ handleLocationSelect(lat, lng, manualCoords)

\* FarmLocationSelector.tsx:36-49: the device reports its position
GeolocationSuccess(lat, lng) ==
    /\ formOpen
    /\ handleLocationSelect(lat, lng, [latitude |-> <<lat>>, longitude |-> <<lng>>])

\* FarmLocationSelector.tsx:75-87
handleManualCoordChange(field, value) ==
    LET coords == [manualCoords EXCEPT ![field] = value]
        lat == IF field = "latitude" THEN parseFloat(value)
               ELSE parseFloat(manualCoords.latitude)
        lng == IF field = "longitude" THEN parseFloat(value)
               ELSE parseFloat(manualCoords.longitude)
    IN  /\ formOpen
        /\ IF ~isNaN(lat) /\ ~isNaN(lng) /\ isValidCoordinate(lat[1], lng[1])
           THEN handleLocationSelect(lat[1], lng[1], coords)
           ELSE /\ manualCoords' = coords
                /\ UNCHANGED <<formOpen, formData, errors, created, pageVars,
                               localVars, ghostVars, dbVars, overlayVars,
                   resultVars>>

\* page.tsx:174-183
FarmDataOf(fd) ==
    [user_id |-> TheUser, location_lat |-> fd.location_lat[1],
     location_lng |-> fd.location_lng[1],
     area_hectares |-> parseFloat(fd.area_hectares)[1],
     planting_date |-> fd.planting_date, harvest_date |-> fd.harvest_date]

\* createFarm of @/lib/supabase: the insert of farmData into farms by the
\* session of the user; it throws when the store refuses the row
createFarm(farmData, id) ==
    FarmInserted(TheUser, id,
                 FarmRow(farmData.user_id, farmData.location_lat,
                         farmData.location_lng, farmData.area_hectares,
                         farmData.planting_date, farmData.harvest_date))

\* page.tsx:163-193
handleSubmit(id) ==
    /\ formOpen
    /\ IF validateForm(formData) # {}
       THEN /\ errors' = validateForm(formData)
            /\ manualCoords' = SyncCoords(formData, manualCoords)
            /\ UNCHANGED <<formOpen, formData, created, dbVars>>
       ELSE /\ created' = FarmDataOf(formData)
            /\ createFarm(FarmDataOf(formData), id)
            /\ IF lastStatement'.applied
               THEN \* router.push('/dashboard')
                    /\ formOpen' = FALSE
                    /\ formData' = EmptyForm
                    /\ errors' = {}
                    /\ manualCoords' = NoCoords
               ELSE /\ errors' = {"general"}
                    /\ manualCoords' = SyncCoords(formData, manualCoords)
                    /\ UNCHANGED <<formOpen, formData>>
    /\ UNCHANGED <<pageVars, localVars, ghostVars, overlayVars, resultVars>>

\* variant: the boundary areas 2, 10 and 50 stay in the lower tier
GridTierBoundaryBelow(area) ==
    CASE area <= 2 * Hectare -> [rows |-> 2, cols |-> 2, zones |-> 4, resolution |-> 10]
      [] area > 2 * Hectare /\ area <= 10 * Hectare ->
            [rows |-> 3, cols |-> 3, zones |-> 9, resolution |-> 10]
      [] area > 10 * Hectare /\ area <= 50 * Hectare ->
            [rows |-> 4, cols |-> 4, zones |-> 16, resolution |-> 30]
      [] area > 50 * Hectare -> [rows |-> 5, cols |-> 5, zones |-> 25, resolution |-> 30]

\* Dynamic Grid System: the grid and the resolution for a farm of the area
GridTier(area) ==
    CASE area < 2 * Hectare -> [rows |-> 2, cols |-> 2, zones |-> 4, resolution |-> 10]
      [] area >= 2 * Hectare /\ area < 10 * Hectare ->
            [rows |-> 3, cols |-> 3, zones |-> 9, resolution |-> 10]
      [] area >= 10 * Hectare /\ area < 50 * Hectare ->
            [rows |-> 4, cols |-> 4, zones |-> 16, resolution |-> 30]
      [] area >= 50 * Hectare -> [rows |-> 5, cols |-> 5, zones |-> 25, resolution |-> 30]

\* the farm page draws the zones of the analysis of a stored farm
ShowFarmZones(id) ==
    /\ id \in DOMAIN farms
    /\ overlayProps = NoProps
    /\ LET tier == GridTier(farms[id].area_hectares)
       IN  RenderOverlay([latitude |-> FromInt(farms[id].location_lat),
                          longitude |-> FromInt(farms[id].location_lng),
                          area |-> Ratio(farms[id].area_hectares, Hectare),
                          grid_size |-> [rows |-> tier.rows, cols |-> tier.cols],
                          zones |-> GridZones(tier.rows, tier.cols)])
    /\ UNCHANGED <<pageVars, localVars, ghostVars, dbVars, formVars, resultVars>>

\* one user registers one farm: what they type (areas of 0, 0.00004, -1 and
\* 2.5 hectares), pick and click (a click at longitude 190 is one on the
\* copy of the world east of the antimeridian)
NextFarm ==
    \/ farms = <<>> /\ OpenNewFarm
    \/ \E v \in {"North field"} : handleInputChange("name", v)
    \/ \E v \in {"Rice"} : handleInputChange("crop_type", v)
    \/ \E v \in {<<0>>, <<4>>, <<-Hectare>>, <<25 * (Hectare \div 10)>>} :
            handleInputChange("area_hectares", v)
    \/ \E v \in {Today - 30} : handleInputChange("planting_date", v)
    \/ \E v \in {Today - 30, Today + 90} : handleInputChange("harvest_date", v)
    \/ \E c \in {<<45, 10>>, <<45, 190>>, <<0, 10>>} : MapClick(c[1], c[2])
    \/ \E c \in {<<45, 10>>} : GeolocationSuccess(c[1], c[2])
    \/ \E v \in {<<95>>, <<1>>} : handleManualCoordChange("latitude", v)
    \/ \E v \in {<<200>>, <<2>>} : handleManualCoordChange("longitude", v)
    \/ handleSubmit(TheFarm)
    \/ ShowFarmZones(TheFarm)
    \/ OverlayEffect
    \/ HideOverlay

SpecFarm == Init /\ [][NextFarm]_vars

----------------------------------------------------------------------------
(* The grid that the analysis service chooses for a farm *)

\* the service analyses the zones of a stored farm
AnalyzeZones(id) ==
    /\ id \in DOMAIN farms
    /\ zonalAnalysis = NoZonal
    /\ zonalAnalysis' =
            [farm_id |-> id,
             grid_size |-> [rows |-> GridTier(farms[id].area_hectares).rows,
                            cols |-> GridTier(farms[id].area_hectares).cols],
             total_zones |-> GridTier(farms[id].area_hectares).zones,
             resolution_meters |-> GridTier(farms[id].area_hectares).resolution]
    /\ UNCHANGED <<pageVars, localVars, ghostVars, dbVars, overlayVars, formVars,
                   healthShown, alertList, zoneMap, nav>>

\* a store that holds one farm, of one of the areas: every half hectare up
\* to 60, the stored values next to the three tier boundaries, the smallest
InitTier ==
    /\ InitApp
    /\ \E area \in {k * (Hectare \div 2) : k \in 1..120}
                    \cup {b * Hectare + d * AreaScale : b \in {2, 10, 50}, d \in {-1, 1}}
                    \cup {AreaScale} :
            farms = [f \in {TheFarm} |-> FarmRow(TheUser, 45, 10, area, 1, 2)]

NextTier == AnalyzeZones(TheFarm)

SpecTier == InitTier /\ [][NextTier]_vars

----------------------------------------------------------------------------
(* Health scores on the screen.  A score is counted in hundredths. *)

Point == 100

\* ZoneMap.tsx:45-50
getHealthColor(health) ==
    IF health >= 75 * Point THEN "bg-green-500"
    ELSE IF health >= 55 * Point THEN "bg-yellow-500"
    ELSE IF health >= 35 * Point THEN "bg-orange-500"
    ELSE "bg-red-500"

\* ZoneMap.tsx:52-57
getHealthEmoji(health) ==
    IF health >= 75 * Point THEN "green circle"
    ELSE IF health >= 55 * Point THEN "yellow circle"
    ELSE IF health >= 35 * Point THEN "orange circle"
    ELSE "red circle"

\* ZoneMap.tsx:59-64
getHealthTextColor(health) ==
    IF health >= 75 * Point THEN "text-green-700"
    ELSE IF health >= 55 * Point THEN "text-yellow-700"
    ELSE IF health >= 35 * Point THEN "text-orange-700"
    ELSE "text-red-700"

\* ZoneMap.tsx:66-71
getHealthBgLight(health) ==
    IF health >= 75 * Point THEN "bg-green-100 hover:bg-green-200"
    ELSE IF health >= 55 * Point THEN "bg-yellow-100 hover:bg-yellow-200"
    ELSE IF health >= 35 * Point THEN "bg-orange-100 hover:bg-orange-200"
    ELSE "bg-red-100 hover:bg-red-200"

\* variant: a score of exactly 55 is not yet moderate
getHealthConfigAbove55(score) ==
    IF score >= 75 * Point THEN [color |-> "#22c55e", label |-> "Healthy"]
    ELSE IF score > 55 * Point THEN [color |-> "#eab308", label |-> "Moderate"]
    ELSE IF score >= 35 * Point THEN [color |-> "#f97316", label |-> "Needs Attention"]
    ELSE [color |-> "#ef4444", label |-> "Critical"]

\* HealthGauge.tsx:13-44
getHealthConfig(score) ==
    IF score >= 75 * Point THEN [color |-> "#22c55e", label |-> "Healthy"]
    ELSE IF score >= 55 * Point THEN [color |-> "#eab308", label |-> "Moderate"]
    ELSE IF score >= 35 * Point THEN [color |-> "#f97316", label |-> "Needs Attention"]
    ELSE [color |-> "#ef4444", label |-> "Critical"]

\* part_003:104-109
getZoneColor(health) ==
    IF health >= 75 * Point THEN "#22c55e"
    ELSE IF health >= 55 * Point THEN "#eab308"
    ELSE IF health >= 35 * Point THEN "#f97316"
    ELSE "#ef4444"

\* part_003:111-117, in tenths
getZoneFillOpacity(health) ==
    IF health >= 75 * Point THEN 3
    ELSE IF health >= 55 * Point THEN 4
    ELSE IF health >= 35 * Point THEN 5
    ELSE 6

\* part_003:119-124
getZoneEmoji(health) ==
    IF health >= 75 * Point THEN "green circle"
    ELSE IF health >= 55 * Point THEN "yellow circle"
    ELSE IF health >= 35 * Point THEN "orange circle"
    ELSE "red circle"

\* part_002:22-27, the badge of an entry of the analysis history
AnalysisHistory_getHealthColor(score) ==
    IF score >= 75 * Point THEN "text-green-600 bg-green-100"
    ELSE IF score >= 55 * Point THEN "text-yellow-600 bg-yellow-100"
    ELSE IF score >= 35 * Point THEN "text-orange-600 bg-orange-100"
    ELSE "text-red-600 bg-red-100"

\* SoilHealthDisplay.tsx:73-78, the badge of the soil-health report
SoilHealthDisplay_getHealthColor(score) ==
    IF score >= 80 * Point THEN "text-green-600 bg-green-100"
    ELSE IF score >= 60 * Point THEN "text-yellow-600 bg-yellow-100"
    ELSE IF score >= 40 * Point THEN "text-orange-600 bg-orange-100"
    ELSE "text-red-600 bg-red-100"

\* a zone of the score is drawn in the grid, on the gauge and on the map, and
\* an analysis of the score in the history and in the report
RenderHealth(score) ==
    /\ healthShown' = [score |-> score,
                       cell |-> getHealthColor(score),
                       cellEmoji |-> getHealthEmoji(score),
                       cellText |-> getHealthTextColor(score),
                       cellLight |-> getHealthBgLight(score),
                       gauge |-> getHealthConfig(score),
                       rectangle |-> getZoneColor(score),
                       fillOpacity |-> getZoneFillOpacity(score),
                       marker |-> getZoneEmoji(score),
                       history |-> AnalysisHistory_getHealthColor(score),
                       report |-> SoilHealthDisplay_getHealthColor(score)]
    /\ UNCHANGED <<pageVars, localVars, ghostVars, dbVars, overlayVars, formVars,
                   zonalAnalysis, alertList, zoneMap, nav>>

\* the scores 0, 1, ..., 100 and the scores a hundredth off the thresholds
NextHealth ==
    \E score \in {k * Point : k \in 0..100}
                    \cup {t * Point + d : t \in {35, 55, 75}, d \in {-1, 1}} :
        RenderHealth(score)

SpecHealth == Init /\ [][NextHealth]_vars

----------------------------------------------------------------------------
(* ZoneAlertList: HealthGauge.tsx:440-482 *)

MaxZones == 3

\* zones.filter(z => z.health < 55)
FilterProblems(zones) ==
    SelectSeq(zones, LAMBDA z : z.health < 55 * Point)

\* the place of a zone in an ascending list, behind the zones of equal health
RECURSIVE InsertByHealth(_, _)
InsertByHealth(sorted, z) ==
    IF sorted = <<>> THEN <<z>>
    ELSE IF Head(sorted).health - z.health <= 0
         THEN <<Head(sorted)>> \o InsertByHealth(Tail(sorted), z)
         ELSE <<z>> \o sorted

\* .sort((a, b) => a.health - b.health): a stable sort
RECURSIVE SortByHealth(_)
SortByHealth(zones) ==
    IF zones = <<>> THEN <<>>
    ELSE InsertByHealth(SortByHealth(SubSeq(zones, 1, Len(zones) - 1)),
                        zones[Len(zones)])

\* Array.prototype.slice(0, end) for an integer end
Slice0(seq, end) ==
    LET to == IF end < 0 THEN (IF Len(seq) + end < 0 THEN 0 ELSE Len(seq) + end)
              ELSE IF end > Len(seq) THEN Len(seq) ELSE end
    IN  SubSeq(seq, 1, to)

\* lines 447-450
ProblemZones(zones, maxAlerts) ==
    Slice0(SortByHealth(FilterProblems(zones)), maxAlerts)

\* the list is put on the screen
RenderAlerts(zones, maxAlerts) ==
    /\ alertList = NoAlerts
    /\ alertList' = [maxAlerts |-> maxAlerts,
                     zones |-> zones,
                     problemZones |-> ProblemZones(zones, maxAlerts),
                     output |-> IF Len(ProblemZones(zones, maxAlerts)) = 0
                                THEN "All Clear!" ELSE "Need Attention"]
    /\ UNCHANGED <<pageVars, localVars, ghostVars, dbVars, overlayVars, formVars,
                   zonalAnalysis, healthShown, zoneMap, nav>>

\* the list is taken off the screen
RemoveAlerts ==
    /\ alertList # NoAlerts
    /\ alertList' = NoAlerts
    /\ UNCHANGED <<pageVars, localVars, ghostVars, dbVars, overlayVars, formVars,
                   zonalAnalysis, healthShown, zoneMap, nav>>

\* up to MaxZones zones, named by their place, of healths 20, 40, 54.99, 55
\* and 80, and the values of maxAlerts (3 when the prop is left out)
NextAlerts ==
    \/ \E n \in 0..MaxZones, maxAlerts \in 0..3 :
            \E healths \in [1..n -> {20 * Point, 40 * Point, 55 * Point - 1,
                                      55 * Point, 80 * Point}] :
                RenderAlerts([i \in 1..n |-> [zone_id |-> i, health |-> healths[i]]],
                             maxAlerts)
    \/ RemoveAlerts

SpecAlerts == Init /\ [][NextAlerts]_vars

----------------------------------------------------------------------------
(* Properties of the polling loops *)

Gets(k) == calls[k][PollEndpoint(k)]
Report(k) == IF k = "soil" THEN soilHealthReport ELSE roiReport
Shown(k) == IF k = "soil" THEN showSoilHealth ELSE showROI
Other(k) == IF k = "soil" THEN "roi" ELSE "soil"
NonTerminal == {"pending", "processing"}

\* C1: a run reports the timeout only if the last status it saw was pending
\* or processing, and a run whose last fetched record is failed reports the
\* worker failure; the two reports differ.
C1_TimeoutOnlyWhenNonTerminal ==
    /\ FailedMsg # TimeoutMsg
    /\ \A k \in Kinds :
        pc[k] = "finally" /\ exit[k] \in {"failed", "timeout"} =>
            /\ analysisError = TimeoutMsg => finalReport[k].status \in NonTerminal
            /\ finalReport[k].status = "failed" => analysisError = FailedMsg

C3_NoFetchAfterFailed ==
    \A k \in Kinds :
        finalReport[k].status = "failed" /\ Gets(k) >= 1 =>
            /\ pc[k] = "finally"
            /\ exit[k] \in {"failed", "timeout"}
            /\ attempts[k] = Gets(k)

C3_Witness ==
    \E k \in Kinds :
        /\ pc[k] = "finally"
        /\ finalReport[k].status = "failed"
        /\ Gets(k) >= 2 /\ Gets(k) < MaxAttempts

\* C4: when the record created was pending, the first N gets answered pending
\* and get N+1 answers completed, the invocation is in its finally block after
\* exactly N+1 gets and one interval of waiting per get, with that completed
\* record stored and no error.
C4_CompletedAfterNPending ==
    \A k \in Kinds :
        ( /\ initialReport[k].status = "pending"
          /\ priorStatuses[k] \subseteq {"pending"}
          /\ finalReport[k].status = "completed"
          /\ Gets(k) >= 1 )
        => /\ pc[k] = "finally"
           /\ exit[k] = "success"
           /\ Gets(k) <= MaxAttempts
           /\ attempts[k] = Gets(k)
           /\ waited[k] = PollIntervalMs * Gets(k)
           /\ Report(k) = finalReport[k]
           /\ analysisError = ""

C4_Witness ==
    \E k \in Kinds :
        /\ pc[k] = "finally" /\ exit[k] = "success"
        /\ initialReport[k].status = "pending"
        /\ priorStatuses[k] = {"pending"}
        /\ finalReport[k].status = "completed"
        /\ Gets(k) >= 3
        /\ Report(k) = finalReport[k]
        /\ waited[k] = PollIntervalMs * Gets(k)

\* C5: no invocation sends more gets than the attempt budget, and a run all
\* of whose gets answered processing ends after exactly that many gets with
\* the timeout.
C5_TimeoutAfterBudget ==
    \A k \in Kinds :
        /\ Gets(k) <= MaxAttempts
        /\ ( /\ pc[k] = "finally" /\ exit[k] \notin {"createError", "getError"}
             /\ initialReport[k].status \in NonTerminal
             /\ Gets(k) >= 1
             /\ priorStatuses[k] \subseteq {"processing"}
             /\ finalReport[k].status = "processing" )
           => /\ Gets(k) = MaxAttempts
              /\ exit[k] = "timeout"
              /\ analysisError = TimeoutMsg
              /\ waited[k] = MaxAttempts * PollIntervalMs

C5_Witness ==
    \E k \in Kinds :
        /\ pc[k] = "finally" /\ exit[k] = "timeout"
        /\ priorStatuses[k] = {"processing"}
        /\ finalReport[k].status = "processing"
        /\ Gets(k) = MaxAttempts
        /\ analysisError = TimeoutMsg

\* a step that begins polling identifier id for kind k without a create call
RepollStep(k, id) ==
    /\ Next
    /\ pc'[k] \in {"sleeping", "fetching"}
    /\ initialReport'[k].id = id
    /\ calls'[k][CreateEndpoint(k)] = 0

C7_FetchErrorEndsRun ==
    \A k \in Kinds :
        rejected[k] # "none" =>
            /\ pc[k] = "finally"
            /\ exit[k] = "getError"
            /\ rejected[k] # "" => analysisError = rejected[k]
            /\ rejected[k] = "" => analysisError = FallbackMsg(k)

C7_Witness ==
    \E k \in Kinds :
        /\ rejected[k] = "Not authorized"
        /\ pc[k] = "finally"
        /\ Gets(k) >= 2
        /\ analysisError = "Not authorized"

\* C8: an invocation in flight has sent exactly one create call, to its own
\* create endpoint, and nothing else but gets to its own get endpoint.
C8_OneCreatePerRequest ==
    \A k \in Kinds :
        pc[k] # "idle" =>
            /\ calls[k][CreateEndpoint(k)] = 1
            /\ \A e \in Endpoints \ {CreateEndpoint(k), PollEndpoint(k)} :
                    calls[k][e] = 0

C8_Witness ==
    \E k \in Kinds :
        /\ pc[k] = "finally" /\ exit[k] = "failed"
        /\ Gets(k) >= 1
        /\ calls[k][CreateEndpoint(k)] = 1

\* state of the invocation of kind k and the result it stores
OwnState(k) ==
    <<pc[k], attempts[k], initialReport[k], finalReport[k], polledId[k],
      calls[k], Report(k), Shown(k)>>

\* C9 as stated: a step of one loop changes nothing that the other loop
\* reads or writes.
C9_NoSharedState ==
    [][\A k \in Kinds :
        pc'[k] # pc[k] =>
            UNCHANGED <<OwnState(Other(k)), analyzing, analysisError>>]_vars

\* C9 (amended): a step of one loop leaves the other loop's identifier,
\* attempt counter, fetched record, stored report and modal flag unchanged;
\* analyzing and analysisError are written by both.
C9_OwnLoopState ==
    [][\A k \in Kinds :
        pc'[k] # pc[k] => UNCHANGED OwnState(Other(k))]_vars

C9_Witness ==
    /\ pc["roi"] = "finally" /\ exit["roi"] = "success"
    /\ soilHealthReport.id = 1 /\ roiReport.id = 2
    /\ showSoilHealth /\ showROI

----------------------------------------------------------------------------
(* Properties of the analysis tables *)

RowChanged(old, new, id) == id \notin DOMAIN new \/ new[id] # old[id]

C11_PayloadAndErrorMatchStatus ==
    \A t \in Tables : \A id \in DOMAIN Table(t) :
        /\ Table(t)[id].status # "completed" => Table(t)[id].payload = "null"
        /\ Table(t)[id].status # "failed" => Table(t)[id].error_message = "null"

----------------------------------------------------------------------------
(* Properties of the zone rectangles *)

South(b) == b[1][1]
West(b) == b[1][2]
North(b) == b[2][1]
East(b) == b[2][2]

\* the overlay shows its rectangles
Drawn == isClient /\ overlayProps # NoProps
Rows == overlayProps.grid_size.rows
Cols == overlayProps.grid_size.cols
\* the rectangle drawn for the zone of cell (r, c)
BoxAt(r, c) ==
    zoneBounds[CHOOSE i \in DOMAIN zoneBounds :
                    zoneBounds[i].zone = [row |-> r, col |-> c]].bounds
\* the farm square of the props
Square == FarmSquare(overlayProps.latitude, overlayProps.longitude, overlayProps.area)

Min(a, b) == IF a < b THEN a ELSE b
Max(a, b) == IF a > b THEN a ELSE b
\* exponent of the last place of the larger of |x| and |y|
LastPlace(x, y) ==
    IF x[1] = 0 THEN y[2] ELSE IF y[1] = 0 THEN x[2] ELSE Max(x[2], y[2])
\* |x - y| <= k * 2^e, computed exactly
Within(x, y, k, e) ==
    LET ex == IF x[1] = 0 THEN e ELSE x[2]
        ey == IF y[1] = 0 THEN e ELSE y[2]
        g == Min(Min(ex, ey), e)
    IN  Abs(x[1] * Pow2(ex - g) - y[1] * Pow2(ey - g)) <= k * Pow2(e - g)
LatPlace == LastPlace(Square.farmNorth, Square.farmSouth)
LonPlace == LastPlace(Square.farmWest, Square.farmEast)
\* y is above x by more than k * 2^e
Exceeds(y, x, k, e) == Less(x, y) /\ ~Within(x, y, k, e)

\* C12 as stated: the rectangles of the grid cells tile the farm square
\* exactly: shared edges are equal, the outer edges are the edges of the
\* square, and no two cells overlap in their interiors.
C12_ExactTiling ==
    Drawn =>
        \A r \in 0..(Rows - 1), c \in 0..(Cols - 1) :
            LET b == BoxAt(r, c) IN
            /\ r + 1 < Rows => South(b) = North(BoxAt(r + 1, c))
            /\ c + 1 < Cols => East(b) = West(BoxAt(r, c + 1))
            /\ r = 0 => North(b) = Square.farmNorth
            /\ c = 0 => West(b) = Square.farmWest
            /\ r = Rows - 1 => South(b) = Square.farmSouth
            /\ c = Cols - 1 => East(b) = Square.farmEast
            /\ \A r2 \in 0..(Rows - 1), c2 \in 0..(Cols - 1) :
                /\ r < r2 => LessEq(North(BoxAt(r2, c2)), South(b))
                /\ c < c2 => LessEq(East(b), West(BoxAt(r2, c2)))

\* C12 (amended): the rectangles tile the farm square up to the rounding of
\* the arithmetic: shared edges, and the south and east outer edges, agree
\* within 6 units in the last place of the square's larger coordinate, the
\* north and west outer edges are exact, and two cells overlap by no more
\* than that error.
C12_TilingUpToRounding ==
    Drawn =>
        \A r \in 0..(Rows - 1), c \in 0..(Cols - 1) :
            LET b == BoxAt(r, c) IN
            /\ r + 1 < Rows => Within(South(b), North(BoxAt(r + 1, c)), 6, LatPlace)
            /\ c + 1 < Cols => Within(East(b), West(BoxAt(r, c + 1)), 6, LonPlace)
            /\ r = 0 => North(b) = Square.farmNorth
            /\ c = 0 => West(b) = Square.farmWest
            /\ r = Rows - 1 => Within(South(b), Square.farmSouth, 6, LatPlace)
            /\ c = Cols - 1 => Within(East(b), Square.farmEast, 6, LonPlace)
            /\ \A r2 \in 0..(Rows - 1), c2 \in 0..(Cols - 1) :
                /\ r < r2 => ~Exceeds(North(BoxAt(r2, c2)), South(b), 6, LatPlace)
                /\ c < c2 => ~Exceeds(East(b), West(BoxAt(r2, c2)), 6, LonPlace)

\* a 5 x 5 grid is drawn in which a shared edge is not computed equal from
\* its two sides
C12_Witness ==
    /\ Drawn /\ Rows = 5 /\ Cols = 5
    /\ \E r \in 0..3, c \in 0..4 :
        /\ South(BoxAt(r, c)) # North(BoxAt(r + 1, c))
        /\ Within(South(BoxAt(r, c)), North(BoxAt(r + 1, c)), 6, LatPlace)

\* C13 as stated: zone (0,0) has the square's north and west edges, zone
\* (rows-1, cols-1) its south and east edges, and a larger row (column) index
\* is strictly further south (east).
C13_Orientation ==
    Drawn =>
        /\ North(BoxAt(0, 0)) = Square.farmNorth
        /\ West(BoxAt(0, 0)) = Square.farmWest
        /\ South(BoxAt(Rows - 1, Cols - 1)) = Square.farmSouth
        /\ East(BoxAt(Rows - 1, Cols - 1)) = Square.farmEast
        /\ \A r \in 0..(Rows - 2), c \in 0..(Cols - 1) :
            /\ Less(North(BoxAt(r + 1, c)), North(BoxAt(r, c)))
            /\ Less(South(BoxAt(r + 1, c)), South(BoxAt(r, c)))
        /\ \A r \in 0..(Rows - 1), c \in 0..(Cols - 2) :
            /\ Less(West(BoxAt(r, c)), West(BoxAt(r, c + 1)))
            /\ Less(East(BoxAt(r, c)), East(BoxAt(r, c + 1)))

\* C13 (amended): as stated, except that the south and east edges of zone
\* (rows-1, cols-1) are those of the square only up to rounding (within 6
\* units in the last place).
C13_OrientationUpToRounding ==
    Drawn =>
        /\ North(BoxAt(0, 0)) = Square.farmNorth
        /\ West(BoxAt(0, 0)) = Square.farmWest
        /\ Within(South(BoxAt(Rows - 1, Cols - 1)), Square.farmSouth, 6, LatPlace)
        /\ Within(East(BoxAt(Rows - 1, Cols - 1)), Square.farmEast, 6, LonPlace)
        /\ \A r \in 0..(Rows - 2), c \in 0..(Cols - 1) :
            /\ Less(North(BoxAt(r + 1, c)), North(BoxAt(r, c)))
            /\ Less(South(BoxAt(r + 1, c)), South(BoxAt(r, c)))
        /\ \A r \in 0..(Rows - 1), c \in 0..(Cols - 2) :
            /\ Less(West(BoxAt(r, c)), West(BoxAt(r, c + 1)))
            /\ Less(East(BoxAt(r, c)), East(BoxAt(r, c + 1)))

\* a grid of three or more rows is drawn whose south-east zone does not end
\* exactly on the square's south edge, and lies south and east of zone (0,0)
C13_Witness ==
    /\ Drawn /\ Rows >= 3 /\ Cols # Rows
    /\ South(BoxAt(Rows - 1, Cols - 1)) # Square.farmSouth
    /\ Less(North(BoxAt(Rows - 1, Cols - 1)), North(BoxAt(0, 0)))
    /\ Less(West(BoxAt(0, 0)), West(BoxAt(Rows - 1, Cols - 1)))

\* C14: no rectangle is computed for a zone whose row is outside [0, rows)
\* or whose column is outside [0, cols).
C14_OutOfRangeRejected ==
    \A i \in DOMAIN zoneBounds :
        /\ zoneBounds[i].zone.row \in 0..(Rows - 1)
        /\ zoneBounds[i].zone.col \in 0..(Cols - 1)

----------------------------------------------------------------------------
(* Properties of the farm entity on its way to the zone overlay *)

\* C15: the zone-bounds computation is never invoked with a farm area that
\* is zero or negative: whenever the rectangles of a farm have been computed,
\* the area handed to calculateZoneBounds is greater than 0, and so is the
\* area of every farm that the store has let in.
C15_AreaPositiveAtZoneBounds ==
    /\ zoneBounds # <<>> => Less(Zero, overlayProps.area)
    /\ \A f \in DOMAIN farms : farms[f].area_hectares > 0

\* the rectangles of a farm that came in through the form are on the screen
C15_Witness ==
    /\ zoneBounds # <<>>
    /\ TheFarm \in DOMAIN farms
    /\ created.user_id = TheUser
    /\ overlayProps.area = Ratio(created.area_hectares, Hectare)

----------------------------------------------------------------------------
(* Properties of tiers, health bands and the alert list *)

Analysed == zonalAnalysis # NoZonal
AnalysedArea == farms[zonalAnalysis.farm_id].area_hectares
TierOf(rows, zones, resolution) ==
    /\ zonalAnalysis.grid_size = [rows |-> rows, cols |-> rows]
    /\ zonalAnalysis.total_zones = zones
    /\ zonalAnalysis.resolution_meters = resolution

\* C16: tier selection is a step function of the area in hectares: below 2
\* the grid is 2x2 (4 zones, 10 m), from 2 to below 10 it is 3x3 (9 zones,
\* 10 m), from 10 to below 50 it is 4x4 (16 zones, 30 m), from 50 on it is
\* 5x5 (25 zones, 30 m); 2, 10 and 50 belong to the upper tier and the
\* resolution is 30 m exactly from 10 ha on.
C16_TierStepFunction ==
    Analysed =>
        /\ TierOf(2, 4, 10) <=> AnalysedArea < 2 * Hectare
        /\ TierOf(3, 9, 10) <=> (AnalysedArea >= 2 * Hectare /\ AnalysedArea < 10 * Hectare)
        /\ TierOf(4, 16, 30) <=> (AnalysedArea >= 10 * Hectare /\ AnalysedArea < 50 * Hectare)
        /\ TierOf(5, 25, 30) <=> AnalysedArea >= 50 * Hectare
        /\ zonalAnalysis.resolution_meters = 30 <=> AnalysedArea >= 10 * Hectare
        /\ zonalAnalysis.resolution_meters \in {10, 30}

\* a farm of exactly 10 ha has been given the 4x4 grid at 30 m
C16_Witness ==
    /\ Analysed
    /\ AnalysedArea = 10 * Hectare
    /\ TierOf(4, 16, 30)

Band(green, yellow, orange, red) ==
    CASE healthShown.score >= 75 * Point -> green
      [] healthShown.score >= 55 * Point /\ healthShown.score < 75 * Point -> yellow
      [] healthShown.score >= 35 * Point /\ healthShown.score < 55 * Point -> orange
      [] healthShown.score < 35 * Point -> red

\* C17: every score from 0 to 100 is shown in exactly one band by each of
\* the components: healthy (green) iff score >= 75, moderate (yellow) iff
\* 55 <= score < 75, degraded (orange, "Needs Attention") iff
\* 35 <= score < 55, critical (red) iff score < 35.
C17_OneBandPerScore ==
    healthShown # NoHealth =>
        /\ healthShown.cell = Band("bg-green-500", "bg-yellow-500",
                                   "bg-orange-500", "bg-red-500")
        /\ healthShown.cellEmoji = Band("green circle", "yellow circle",
                                        "orange circle", "red circle")
        /\ healthShown.cellText = Band("text-green-700", "text-yellow-700",
                                       "text-orange-700", "text-red-700")
        /\ healthShown.cellLight = Band("bg-green-100 hover:bg-green-200",
                                        "bg-yellow-100 hover:bg-yellow-200",
                                        "bg-orange-100 hover:bg-orange-200",
                                        "bg-red-100 hover:bg-red-200")
        /\ healthShown.gauge.label = Band("Healthy", "Moderate", "Needs Attention",
                                          "Critical")
        /\ healthShown.gauge.color = Band("#22c55e", "#eab308", "#f97316", "#ef4444")
        /\ healthShown.rectangle = Band("#22c55e", "#eab308", "#f97316", "#ef4444")
        /\ healthShown.fillOpacity = Band(3, 4, 5, 6)
        /\ healthShown.marker = Band("green circle", "yellow circle",
                                     "orange circle", "red circle")

\* a score of exactly 55 is on the screen, as moderate
C17_Witness ==
    /\ healthShown.score = 55 * Point
    /\ healthShown.gauge.label = "Moderate"
    /\ healthShown.cell = "bg-yellow-500"
    /\ healthShown.rectangle = "#eab308"

Listed == alertList.problemZones
Problems == {i \in DOMAIN alertList.zones : alertList.zones[i].health < 55 * Point}
ListedIds == {Listed[i].zone_id : i \in DOMAIN Listed}

\* C18: ZoneAlertList displays only zones with health below 55, namely the
\* min(maxAlerts, number of such zones) lowest-health ones in ascending
\* order of health, and shows the all-clear message exactly when no zone
\* has health below 55.
C18_AlertListShowsProblemZones ==
    alertList # NoAlerts =>
        /\ ListedIds \subseteq Problems
        /\ Len(Listed) = Min(alertList.maxAlerts, Cardinality(Problems))
        /\ \A i, j \in DOMAIN Listed : i < j => Listed[i].health <= Listed[j].health
        /\ \A p \in Problems \ ListedIds : \A i \in DOMAIN Listed :
                Listed[i].health <= alertList.zones[p].health
        /\ alertList.output = "All Clear!" <=> Problems = {}

----------------------------------------------------------------------------
(* Properties of the deletion of a farm *)

References(t, f) == {i \in DOMAIN t : t[i].farm_id = f}

\* C20: after a farm is deleted, no soil-health analysis, ROI analysis or
\* zone record that referenced that farm remains in the store.
C20_DeleteFarmCascades ==
    [][ \A f \in DOMAIN farms \ DOMAIN farms' :
            /\ References(soil_health_analyses', f) = {}
            /\ References(roi_analyses', f) = {}
            /\ References(zone_analyses', f) = {} ]_vars

\* a farm has just been deleted together with a soil-health analysis, an ROI
\* analysis and a zone record of it
C20_Witness ==
    /\ lastStatement.op = "delete farm"
    /\ lastStatement.applied
    /\ lastStatement.cascaded = MaxRecords
    /\ TheFarm \notin DOMAIN farms
    /\ soil_health_analyses = <<>> /\ roi_analyses = <<>> /\ zone_analyses = <<>>

----------------------------------------------------------------------------
(* Properties of the location of the new-farm form *)

\* C28: the new-farm form accepts every selected location whose latitude is
\* in [-90, 90] and whose longitude is in [-180, 180], latitude 0 and
\* longitude 0 included: the location error is on the form only when no
\* location has been selected.
C28_LocationErrorOnlyWithoutLocation ==
    "location" \in errors =>
        formData.location_lat = <<>> /\ formData.location_lng = <<>>

----------------------------------------------------------------------------
(* ZoneMap: the grid of cells that is built from the zones of an analysis. *)
(* A row of the grid is a function on 0..cols-1, the grid one on           *)
(* 0..rows-1; a cell holds a zone or null.                                 *)

\* null in a cell of the grid
NullZone == [zone_id |-> 0, row |-> 0, col |-> 0]

\* Array(rows).fill(null).map(() => Array(cols).fill(null))
EmptyGrid(grid_size) ==
    [r \in 0..(grid_size.rows - 1) |-> [c \in 0..(grid_size.cols - 1) |-> NullZone]]

\* the body of zones.forEach: grid[zone.row] of a negative row is undefined
\* and the assignment to its element throws; grid[zone.row][zone.col] = zone
\* of a negative column sets a property of the row and fills no cell
PlaceZone(built, zone, grid_size) ==
    IF built.error # "none" THEN built
    ELSE IF zone.row < grid_size.rows /\ zone.col < grid_size.cols
    THEN IF zone.row \notin DOMAIN built.grid
         THEN [built EXCEPT !.error = "TypeError"]
         ELSE IF zone.col \in DOMAIN built.grid[zone.row]
              THEN [built EXCEPT !.grid[zone.row][zone.col] = zone]
              ELSE built
    ELSE built

\* zones.forEach from the zone at position i on
RECURSIVE ForEachZone(_, _, _, _)
ForEachZone(built, zones, i, grid_size) ==
    IF i > Len(zones) THEN built
    ELSE ForEachZone(PlaceZone(built, zones[i], grid_size), zones, i + 1, grid_size)

\* the grid of one render, or the error that ended the render
BuildGrid(analysis) ==
    ForEachZone([grid |-> EmptyGrid(analysis.grid_size), error |-> "none"],
                analysis.zones, 1, analysis.grid_size)

\* <ZoneMap analysis={...} />
RenderZoneMap(analysis) ==
    /\ zoneMap = NoZoneMap
    /\ zoneMap' = [analysis |-> analysis,
                   grid |-> BuildGrid(analysis).grid,
                   error |-> BuildGrid(analysis).error]
    /\ UNCHANGED <<pageVars, localVars, ghostVars, dbVars, overlayVars, formVars,
                   zonalAnalysis, healthShown, alertList, nav>>

\* grids of one or two rows and two columns, and up to two zones whose
\* indexes lie inside the grid, one below it and one above it
NextZoneMap ==
    \E rows \in 1..2, n \in 0..2 :
        \E place \in [1..n -> (-1..2) \X (-1..2)] :
            RenderZoneMap([grid_size |-> [rows |-> rows, cols |-> 2],
                           zones |-> [i \in 1..n |->
                                        [zone_id |-> i, row |-> place[i][1],
                                         col |-> place[i][2]]]])

SpecZoneMap == Init /\ [][NextZoneMap]_vars

----------------------------------------------------------------------------
(* The middleware.  A path is the sequence of the pieces of its text, cut  *)
(* where the prefixes and suffixes that the code tests end; a URL is a     *)
(* path and the value of its redirectTo parameter.  That value is a URL    *)
(* reference, kept as the sequence of its levels: the first says where the *)
(* reference points, the rest is the redirectTo parameter it carries.      *)

MaxNesting == 2

protectedPaths == {"/dashboard", "/farms"}
authPaths == {"/auth/login", "/auth/register"}

\* String.prototype.startsWith, for a prefix that ends where a piece ends
startsWith(path, prefix) == Len(path) >= 1 /\ path[1] = prefix

\* variant: only /dashboard is protected
isProtectedPathDashboardOnly(currentPath) == startsWith(currentPath, "/dashboard")

isProtectedPath(currentPath) == \E path \in protectedPaths : startsWith(currentPath, path)
isAuthPath(currentPath) == \E path \in authPaths : startsWith(currentPath, path)

\* config.matcher: the paths on which the middleware runs
matcher(path) ==
    /\ path[1] \notin {"/_next/static", "/_next/image", "/favicon.ico"}
    /\ path[Len(path)] \notin {".svg", ".png", ".jpg", ".jpeg", ".gif", ".webp"}

\* a reference that is a path of this site
PathRef(path) == [ref |-> "path", path |-> path]

\* new URL(redirectTo, req.url): a reference that is a path replaces path and
\* query of the base; one that is only a query ('?...') keeps the path; one
\* that is only a fragment ('#...') keeps path and query, and the fragment
\* is not part of the request that follows; an absolute URL of another
\* origin leaves the site; a text that is no URL throws
resolveURL(redirectTo, base) ==
    CASE redirectTo[1].ref = "path" ->
            [kind |-> "redirect",
             url |-> [path |-> redirectTo[1].path, redirectTo |-> Tail(redirectTo)]]
      [] redirectTo[1].ref = "query" ->
            [kind |-> "redirect",
             url |-> [path |-> base.path, redirectTo |-> Tail(redirectTo)]]
      [] redirectTo[1].ref = "fragment" -> [kind |-> "redirect", url |-> base]
      [] redirectTo[1].ref = "external" -> [kind |-> "external", url |-> NoNav.url]
      [] redirectTo[1].ref = "invalid" -> [kind |-> "TypeError", url |-> NoNav.url]

\* middleware(req) for a request with or without a session
middleware(url, session) ==
    IF isProtectedPath(url.path) /\ ~session
    THEN [kind |-> "redirect",
          url |-> [path |-> <<"/auth/login">>, redirectTo |-> <<PathRef(url.path)>>]]
    ELSE IF isAuthPath(url.path) /\ session
    THEN IF url.redirectTo # <<>>
         THEN resolveURL(url.redirectTo, url)
         ELSE [kind |-> "redirect",
               url |-> [path |-> <<"/dashboard">>, redirectTo |-> <<>>]]
    ELSE [kind |-> "next", url |-> NoNav.url]

\* the server's answer to a request: the middleware runs on the matched paths
Respond(url, session, visited) ==
    LET answer == IF matcher(url.path) THEN middleware(url, session)
                  ELSE [kind |-> "not run", url |-> NoNav.url]
    IN  nav' = [session |-> session, url |-> url, response |-> answer.kind,
                location |-> answer.url, visited |-> visited \cup {url}]

\* the browser requests a URL
Navigate(url, session) ==
    /\ nav = NoNav
    /\ Respond(url, session, {})
    /\ UNCHANGED <<pageVars, localVars, ghostVars, dbVars, overlayVars, formVars,
                   zonalAnalysis, healthShown, alertList, zoneMap>>

\* the browser follows a redirect to a URL of the site, with the same cookies
FollowRedirect ==
    /\ nav.response = "redirect"
    /\ Respond(nav.location, nav.session, nav.visited)
    /\ UNCHANGED <<pageVars, localVars, ghostVars, dbVars, overlayVars, formVars,
                   zonalAnalysis, healthShown, alertList, zoneMap>>

\* requests for the pages of the site and an image below /dashboard, with
\* redirectTo values of up to MaxNesting levels
NextNav ==
    \/ \E path \in {<<"/">>, <<"/dashboard">>, <<"/dashboard", "/map", ".png">>,
                     <<"/farms", "/1">>, <<"/auth/login">>, <<"/auth/register">>},
          n \in 0..MaxNesting, session \in BOOLEAN :
            \E redirectTo \in
                    [1..n -> {PathRef(<<"/dashboard">>), PathRef(<<"/auth/login">>),
                              PathRef(<<"/auth/register">>), PathRef(<<"/">>)}
                             \cup {[ref |-> k, path |-> <<>>] :
                                     k \in {"query", "fragment", "external", "invalid"}}] :
                Navigate([path |-> path, redirectTo |-> redirectTo], session)
    \/ FollowRedirect

SpecNav == Init /\ [][NextNav]_vars

----------------------------------------------------------------------------
(* Properties of the analyzing flag and of the reports of the farm page *)

InFlight == {h \in Handlers : pc[h] # "idle"}
Failures == {"failed", "timeout", "createError", "getError", "error"}

\* C22: every invocation of an analysis handler sets analyzing to true
\* before its first request, keeps it true while it runs, and sets it back
\* to false when it ends, whichever exit it took (success, worker failure,
\* timeout, rejected request).
C22_AnalyzingFollowsHandler ==
    [][\A h \in Handlers :
        /\ pc[h] = "idle" /\ pc'[h] # "idle" =>
                analyzing' /\ calls'[h] # NoCalls /\ calls[h] = NoCalls
        /\ pc'[h] # "idle" => analyzing'
        /\ pc[h] # "idle" /\ pc'[h] = "idle" =>
                exit[h] \in Failures \cup {"success"} /\ ~analyzing']_vars

\* a soil-only run that timed out has ended, and the flag is down
C22_Witness ==
    /\ timedOutId["soil"] # NoId
    /\ pc["soil"] = "idle"
    /\ analysisError = TimeoutMsg
    /\ ~analyzing

\* C23: at most one analysis handler is in flight at any time, and analyzing
\* is true exactly when one is.
C23_OneHandlerInFlight ==
    /\ Cardinality(InFlight) <= 1
    /\ analyzing <=> InFlight # {}

\* a second handler runs after the first has ended
C23_Witness ==
    /\ requests = 2
    /\ pc["roi"] = "sleeping"
    /\ InFlight = {"roi"}
    /\ analyzing

\* C24: a step of a soil-only or ROI-only run that is not its successful
\* exit changes neither soilHealthReport nor roiReport nor showSoilHealth nor
\* showROI nor farm: a run that ends in worker failure, timeout or request
\* error leaves them as they were and only writes analysisError and analyzing.
C24_FailedRunKeepsReports ==
    [][\A k \in Kinds :
        pc'[k] # pc[k] /\ exit'[k] # "success" =>
            UNCHANGED <<farm, soilHealthReport, roiReport, showSoilHealth, showROI>>]_vars

\* a run has failed while the report of an earlier run is on the screen
C24_Witness ==
    \E k \in Kinds :
        /\ pc[k] = "finally" /\ exit[k] \in Failures
        /\ Report(Other(k)).status = "completed" /\ Shown(Other(k))
        /\ analysisError # ""

\* C25: a report that the soil-only or the ROI-only handler stores, or shows
\* in a result modal, has status completed.
C25_StoredReportCompleted ==
    [][\A k \in Kinds :
        pc'[k] # pc[k] =>
            /\ Report(k)' # Report(k) => Report(k)'.status = "completed"
            /\ Shown(k)' /\ ~Shown(k) => Report(k)'.status = "completed"]_vars

\* a run has stored the record that its last poll, the thirtieth, fetched
C25_Witness ==
    \E k \in Kinds :
        /\ pc[k] = "finally" /\ exit[k] = "success"
        /\ attempts[k] = MaxAttempts
        /\ Report(k) = finalReport[k] /\ Report(k).status = "completed"
        /\ Shown(k)

\* the band that a colour of one of the components stands for
BandOfColour(colour) ==
    CASE colour \in {"bg-green-500", "#22c55e", "text-green-600 bg-green-100"} -> "healthy"
      [] colour \in {"bg-yellow-500", "#eab308", "text-yellow-600 bg-yellow-100"} -> "moderate"
      [] colour \in {"bg-orange-500", "#f97316", "text-orange-600 bg-orange-100"} -> "degraded"
      [] colour \in {"bg-red-500", "#ef4444", "text-red-600 bg-red-100"} -> "critical"

\* C26: a score is shown in the same band in the zone map, in the analysis
\* history, on the health gauge and in the soil-health report.
C26_SameBandInEveryComponent ==
    healthShown # NoHealth =>
        /\ BandOfColour(healthShown.history) = BandOfColour(healthShown.cell)
        /\ BandOfColour(healthShown.gauge.color) = BandOfColour(healthShown.cell)
        /\ BandOfColour(healthShown.report) = BandOfColour(healthShown.cell)

\* the cells of the grid of the last render
Cells == {<<r, c>> : r \in DOMAIN zoneMap.grid, c \in 0..(zoneMap.analysis.grid_size.cols - 1)}
InRange(zone) ==
    /\ 0 <= zone.row /\ zone.row < zoneMap.analysis.grid_size.rows
    /\ 0 <= zone.col /\ zone.col < zoneMap.analysis.grid_size.cols

\* C27: ZoneMap builds its grid without raising an error; each zone whose
\* row and column are inside the grid is in cell (row, col) and in no other
\* cell; a zone with an index outside, negative ones included, is in no
\* cell; a cell holds a zone only if that zone of the payload has the row and
\* the column of the cell.
C27_GridHoldsZonesInRange ==
    zoneMap # NoZoneMap =>
        LET zones == zoneMap.analysis.zones
        IN  /\ zoneMap.error = "none"
            /\ \A i \in 1..Len(zones) :
                    \A cell \in Cells :
                        zoneMap.grid[cell[1]][cell[2]] = zones[i]
                            <=> InRange(zones[i]) /\ cell = <<zones[i].row, zones[i].col>>
            /\ \A cell \in Cells :
                    zoneMap.grid[cell[1]][cell[2]] # NullZone =>
                        \E i \in 1..Len(zones) :
                            /\ zones[i] = zoneMap.grid[cell[1]][cell[2]]
                            /\ cell = <<zones[i].row, zones[i].col>>

\* the zone rows of an analysis, and the grid of the size tier of its farm
ZonesOf(analysis) ==
    {z \in DOMAIN zone_analyses : zone_analyses[z].soil_health_analysis_id = analysis}
GridOf(analysis) == GridTier(farms[soil_health_analyses[analysis].farm_id].area_hectares)

\* C21: the zones of a completed soil-health analysis are in one-to-one
\* correspondence with the cells of its grid: every zone lies inside the
\* grid, no two zones have the same (row, col), and every cell has a zone.
C21_ZonesMatchGridCells ==
    \A a \in DOMAIN soil_health_analyses :
        soil_health_analyses[a].status = "completed" =>
            /\ \A z \in ZonesOf(a) :
                    /\ 0 <= zone_analyses[z].zone_row
                    /\ zone_analyses[z].zone_row < GridOf(a).rows
                    /\ 0 <= zone_analyses[z].zone_col
                    /\ zone_analyses[z].zone_col < GridOf(a).cols
            /\ \A y, z \in ZonesOf(a) :
                    /\ zone_analyses[y].zone_row = zone_analyses[z].zone_row
                    /\ zone_analyses[y].zone_col = zone_analyses[z].zone_col
                    => y = z
            /\ \A r \in 0..(GridOf(a).rows - 1), c \in 0..(GridOf(a).cols - 1) :
                    \E z \in ZonesOf(a) :
                        /\ zone_analyses[z].zone_row = r
                        /\ zone_analyses[z].zone_col = c

LoginFor(path) == [path |-> <<"/auth/login">>, redirectTo |-> <<PathRef(path)>>]
BeginsWith(path, prefixes) == Len(path) >= 1 /\ path[1] \in prefixes
Guarded(path) == BeginsWith(path, {"/dashboard", "/farms"})
AuthPage(path) == BeginsWith(path, {"/auth/login", "/auth/register"})
Excluded(path) == path[Len(path)] \in {".svg", ".png", ".jpg", ".jpeg", ".gif", ".webp"}

\* C29 as stated: a request without a session to a path that begins with
\* /dashboard or /farms is redirected to /auth/login with the path in
\* redirectTo, and a request with a session to /auth/login or /auth/register
\* is not passed through.
C29_ProtectedAlwaysRedirected ==
    nav # NoNav =>
        /\ ~nav.session /\ Guarded(nav.url.path) =>
                nav.response = "redirect" /\ nav.location = LoginFor(nav.url.path)
        /\ nav.session /\ AuthPage(nav.url.path) => nav.response # "next"

\* C29, amended: the same for the requests that config.matcher hands to the
\* middleware; a request for a path that the matcher excludes is not seen by
\* the middleware and gets no redirect.
C29_MatchedProtectedRedirected ==
    nav # NoNav =>
        /\ ~nav.session /\ Guarded(nav.url.path) =>
                IF Excluded(nav.url.path)
                THEN nav.response = "not run"
                ELSE nav.response = "redirect" /\ nav.location = LoginFor(nav.url.path)
        /\ nav.session /\ AuthPage(nav.url.path) /\ ~Excluded(nav.url.path) =>
                nav.response \in {"redirect", "external", "TypeError"}

\* a request for a farm page without a session has been sent to the login
\* page, and the login page was then passed through
C29_Witness ==
    /\ ~nav.session
    /\ nav.url = LoginFor(<<"/farms", "/1">>)
    /\ nav.response = "next"
    /\ [path |-> <<"/farms", "/1">>, redirectTo |-> <<>>] \in nav.visited

\* C30: the chain of redirects of a navigation never comes back to a URL it
\* has already requested, so it ends, at a request that is passed through.
C30_NoRedirectLoop ==
    nav.response = "redirect" => nav.location \notin nav.visited

====
